---- MODULE Spec2Model ----
(***************************************************************************)
(* Model of the IOCTL codec, classifier and discovery engine of winx       *)
(* (package device).                                                       *)
(*                                                                         *)
(* A Go uint32 is modelled as a record [hi, lo] of two 16-bit halves, its  *)
(* value being hi * 2^16 + lo: the full 32-bit range is kept (TLC's own    *)
(* integers stop at 2^31 - 1), and shifts, masks and increments are        *)
(* computed on the halves with the wrap-around of the Go type.             *)
(***************************************************************************)
EXTENDS Integers, Sequences, FiniteSets, TLC

(***************************************************************************)
(* uint32 arithmetic                                                       *)
(***************************************************************************)
Half == 65536

Pow2(n) == 2 ^ n

Word(h, l) == [hi |-> h, lo |-> l]

\* a constant below 2^31 as a uint32
U32(n) == Word(n \div Half, n % Half)

AllOnes == Word(Half - 1, Half - 1)

RECURSIVE And16(_, _, _)
\* bitwise AND of the low n bits of two 16-bit halves
And16(x, y, n) ==
    IF n = 0 \/ x = 0 \/ y = 0 THEN 0
    ELSE (IF x % 2 = 1 /\ y % 2 = 1 THEN 1 ELSE 0)
         + 2 * And16(x \div 2, y \div 2, n - 1)

RECURSIVE Or16(_, _, _)
\* bitwise OR of the low n bits of two 16-bit halves
Or16(x, y, n) ==
    IF n = 0 THEN 0
    ELSE IF x = 0 THEN y % Pow2(n)
    ELSE IF y = 0 THEN x % Pow2(n)
    ELSE (IF x % 2 = 1 \/ y % 2 = 1 THEN 1 ELSE 0)
         + 2 * Or16(x \div 2, y \div 2, n - 1)

\* Go's x & y on uint32
BitAnd(x, y) == Word(And16(x.hi, y.hi, 16), And16(x.lo, y.lo, 16))

\* Go's x | y on uint32
BitOr(x, y) == Word(Or16(x.hi, y.hi, 16), Or16(x.lo, y.lo, 16))

\* Go's x >> n on uint32, 0 <= n <= 16
Shr(x, n) ==
    Word(x.hi \div Pow2(n),
         (x.lo \div Pow2(n)) + (x.hi % Pow2(n)) * Pow2(16 - n))

\* Go's x << n on uint32, 0 <= n <= 16: the bits shifted past bit 31 are lost
Shl(x, n) ==
    Word((x.hi % Pow2(16 - n)) * Pow2(n) + (x.lo \div Pow2(16 - n)),
         (x.lo % Pow2(16 - n)) * Pow2(n))

\* Go's x <= y on uint32
Leq(x, y) == x.hi < y.hi \/ (x.hi = y.hi /\ x.lo <= y.lo)

\* Go's x++ on uint32: 0xFFFFFFFF + 1 wraps to 0
Inc(x) ==
    IF x.lo < Half - 1 THEN Word(x.hi, x.lo + 1)
    ELSE IF x.hi < Half - 1 THEN Word(x.hi + 1, 0)
    ELSE Word(0, 0)

(***************************************************************************)
(* Constants of package device                                             *)
(***************************************************************************)
METHOD_BUFFERED == 0
METHOD_IN_DIRECT == 1
METHOD_OUT_DIRECT == 2
METHOD_NEITHER == 3

FILE_ANY_ACCESS == 0
FILE_READ_ACCESS == 1
FILE_WRITE_ACCESS == 2

FILE_DEVICE_DISK == 7
FILE_DEVICE_MASS_STORAGE == 45
FILE_DEVICE_VOLUME == 86

\* masks and shifts of the bit layout
MaskDeviceType == 65535
MaskFunction == 4095
MaskMethod == 3
MaskAccess == 3
ShiftDeviceType == 16
ShiftAccess == 14
ShiftFunction == 2

\* first custom device type, 0x8000
CustomDeviceTypeBase == 32768

(***************************************************************************)
(* Codec                                                                   *)
(***************************************************************************)

\* the macro without masks: a field too wide spills into its neighbours
CTL_CODE_Unmasked(deviceType, function, method, access) ==
    BitOr(BitOr(BitOr(Shl(deviceType, ShiftDeviceType), Shl(access, ShiftAccess)),
                Shl(function, ShiftFunction)),
          method)

\* CTL_CODE(deviceType, function, method, access): the four fields, each
\* masked to its width, packed at bits 31-16, 13-2, 1-0 and 15-14
CTL_CODE(deviceType, function, method, access) ==
    BitOr(BitOr(BitOr(Shl(BitAnd(deviceType, U32(MaskDeviceType)), ShiftDeviceType),
                      Shl(BitAnd(access, U32(MaskAccess)), ShiftAccess)),
                Shl(BitAnd(function, U32(MaskFunction)), ShiftFunction)),
          BitAnd(method, U32(MaskMethod)))

\* a decoder that forgets the mask after the shift
ExtractFunction_NoMask(ioctlCode) == Shr(ioctlCode, ShiftFunction)

ExtractDeviceType(ioctlCode) ==
    BitAnd(Shr(ioctlCode, ShiftDeviceType), U32(MaskDeviceType))

ExtractFunction(ioctlCode) ==
    BitAnd(Shr(ioctlCode, ShiftFunction), U32(MaskFunction))

\* a decoder that reads one method bit only
ExtractMethod_OneBit(ioctlCode) == BitAnd(ioctlCode, U32(1))

ExtractMethod(ioctlCode) == BitAnd(ioctlCode, U32(MaskMethod))

\* a decoder that reads the access bits one position too low
ExtractAccess_OffByOne(ioctlCode) ==
    BitAnd(Shr(ioctlCode, ShiftAccess - 1), U32(MaskAccess))

ExtractAccess(ioctlCode) ==
    BitAnd(Shr(ioctlCode, ShiftAccess), U32(MaskAccess))

\* deviceTypeNames: the FILE_DEVICE_* constants are the consecutive values
\* 0x01 (BEEP) .. 0x3B (INFINIBAND), in the order of the table
deviceTypeNames ==
    << "BEEP", "CD_ROM", "CD_ROM_FILE_SYSTEM", "CONTROLLER", "DATALINK", "DFS",
       "DISK", "DISK_FILE_SYSTEM", "FILE_SYSTEM", "INPORT_PORT", "KEYBOARD",
       "MAILSLOT", "MIDI_IN", "MIDI_OUT", "MOUSE", "MULTI_UNC_PROVIDER",
       "NAMED_PIPE", "NETWORK", "NETWORK_BROWSER", "NETWORK_FILE_SYSTEM", "NULL",
       "PARALLEL_PORT", "PHYSICAL_NETCARD", "PRINTER", "SCANNER",
       "SERIAL_MOUSE_PORT", "SERIAL_PORT", "SCREEN", "SOUND", "STREAMS", "TAPE",
       "TAPE_FILE_SYSTEM", "TRANSPORT", "UNKNOWN", "VIDEO", "VIRTUAL_DISK",
       "WAVE_IN", "WAVE_OUT", "8042_PORT", "NETWORK_REDIRECTOR", "BATTERY",
       "BUS_EXTENDER", "MODEM", "VDM", "MASS_STORAGE", "SMB", "KS", "CHANGER",
       "SMARTCARD", "ACPI", "DVD", "FULLSCREEN_VIDEO", "DFS_FILE_SYSTEM",
       "DFS_VOLUME", "SERENUM", "TERMSRV", "KSEC", "FIPS", "INFINIBAND" >>

methodNames ==
    (METHOD_BUFFERED :> "BUFFERED") @@ (METHOD_IN_DIRECT :> "IN_DIRECT")
    @@ (METHOD_OUT_DIRECT :> "OUT_DIRECT") @@ (METHOD_NEITHER :> "NEITHER")

accessNames ==
    (FILE_ANY_ACCESS :> "ANY") @@ (FILE_READ_ACCESS :> "READ")
    @@ (FILE_WRITE_ACCESS :> "WRITE") @@ (3 :> "READ_WRITE")

\* the standard codes of constants.go, each CTL_CODE(type, function, method, access)
IOCTL_DISK_GET_DRIVE_GEOMETRY ==
    CTL_CODE(U32(FILE_DEVICE_DISK), U32(0), U32(METHOD_BUFFERED), U32(FILE_ANY_ACCESS))
IOCTL_DISK_GET_PARTITION_INFO ==
    CTL_CODE(U32(FILE_DEVICE_DISK), U32(1), U32(METHOD_BUFFERED), U32(FILE_READ_ACCESS))
IOCTL_DISK_GET_DRIVE_LAYOUT ==
    CTL_CODE(U32(FILE_DEVICE_DISK), U32(3), U32(METHOD_BUFFERED), U32(FILE_READ_ACCESS))
IOCTL_STORAGE_GET_DEVICE_NUMBER ==
    CTL_CODE(U32(FILE_DEVICE_MASS_STORAGE), U32(1056), U32(METHOD_BUFFERED),
             U32(FILE_ANY_ACCESS))
IOCTL_STORAGE_QUERY_PROPERTY ==
    CTL_CODE(U32(FILE_DEVICE_MASS_STORAGE), U32(1280), U32(METHOD_BUFFERED),
             U32(FILE_ANY_ACCESS))
IOCTL_VOLUME_GET_VOLUME_DISK_EXTENTS ==
    CTL_CODE(U32(FILE_DEVICE_VOLUME), U32(0), U32(METHOD_BUFFERED), U32(FILE_ANY_ACCESS))

knownIOCTLs ==
    (IOCTL_DISK_GET_DRIVE_GEOMETRY :> "IOCTL_DISK_GET_DRIVE_GEOMETRY")
    @@ (IOCTL_DISK_GET_PARTITION_INFO :> "IOCTL_DISK_GET_PARTITION_INFO")
    @@ (IOCTL_DISK_GET_DRIVE_LAYOUT :> "IOCTL_DISK_GET_DRIVE_LAYOUT")
    @@ (IOCTL_STORAGE_GET_DEVICE_NUMBER :> "IOCTL_STORAGE_GET_DEVICE_NUMBER")
    @@ (IOCTL_STORAGE_QUERY_PROPERTY :> "IOCTL_STORAGE_QUERY_PROPERTY")
    @@ (IOCTL_VOLUME_GET_VOLUME_DISK_EXTENTS :> "IOCTL_VOLUME_GET_VOLUME_DISK_EXTENTS")

\* a lookup that tests the custom range before the table and from 0x8001 on
GetDeviceTypeName_CustomOffByOne(deviceType) ==
    IF Leq(U32(CustomDeviceTypeBase + 1), deviceType) THEN "CUSTOM"
    ELSE IF deviceType.hi = 0 /\ deviceType.lo \in DOMAIN deviceTypeNames
         THEN deviceTypeNames[deviceType.lo]
    ELSE "UNKNOWN"

GetDeviceTypeName(deviceType) ==
    IF deviceType.hi = 0 /\ deviceType.lo \in DOMAIN deviceTypeNames
        THEN deviceTypeNames[deviceType.lo]
    ELSE IF Leq(U32(CustomDeviceTypeBase), deviceType) THEN "CUSTOM"
    ELSE "UNKNOWN"

GetMethodName(method) ==
    IF method.hi = 0 /\ method.lo \in DOMAIN methodNames
        THEN methodNames[method.lo]
    ELSE "INVALID"

GetAccessName(access) ==
    IF access.hi = 0 /\ access.lo \in DOMAIN accessNames
        THEN accessNames[access.lo]
    ELSE "INVALID"

\* a lookup that matches a code by its device type and function alone
LookupKnownIOCTL_IgnoreLowBits(ioctlCode) ==
    LET hits == {k \in DOMAIN knownIOCTLs :
                    /\ ExtractDeviceType(k) = ExtractDeviceType(ioctlCode)
                    /\ ExtractFunction(k) = ExtractFunction(ioctlCode)}
    IN  IF hits = {} THEN [name |-> "", found |-> FALSE]
        ELSE [name |-> knownIOCTLs[CHOOSE k \in hits : TRUE], found |-> TRUE]

\* (name, found): a missing key yields the zero value ""
LookupKnownIOCTL(ioctlCode) ==
    IF ioctlCode \in DOMAIN knownIOCTLs
        THEN [name |-> knownIOCTLs[ioctlCode], found |-> TRUE]
    ELSE [name |-> "", found |-> FALSE]

DecodeIOCTL(ioctlCode) ==
    LET deviceType == ExtractDeviceType(ioctlCode)
        function == ExtractFunction(ioctlCode)
        method == ExtractMethod(ioctlCode)
        access == ExtractAccess(ioctlCode)
        known == LookupKnownIOCTL(ioctlCode)
    IN  [IOCTLCode |-> ioctlCode,
         DeviceType |-> deviceType,
         DeviceTypeName |-> GetDeviceTypeName(deviceType),
         Function |-> function,
         Method |-> method,
         MethodName |-> GetMethodName(method),
         Access |-> access,
         AccessName |-> GetAccessName(access),
         KnownName |-> IF known.found THEN known.name ELSE ""]

(***************************************************************************)
(* Classifier and probe                                                    *)
(***************************************************************************)
ERROR_INVALID_FUNCTION == 1
ERROR_INVALID_PARAMETER == 87
ERROR_BAD_LENGTH == 24
ERROR_INVALID_USER_BUFFER == 1784
ERROR_NOT_SUPPORTED == 50
ERROR_CALL_NOT_IMPLEMENTED == 120
\* syscall.ERROR_ACCESS_DENIED, ERROR_INSUFFICIENT_BUFFER, ERROR_MORE_DATA
ERROR_ACCESS_DENIED == 5
ERROR_INSUFFICIENT_BUFFER == 122
ERROR_MORE_DATA == 234
\* the last-error value of a call on a handle that is not open
ERROR_INVALID_HANDLE == 6

\* len(inBuf) and len(outBuf) of ProbeIOCTL
ProbeInBufferSize == 16
ProbeOutBufferSize == 256

\* a Go error value: nil, or a syscall.Errno
NilError == [isNil |-> TRUE, errno |-> 0]

Errno(n) == [isNil |-> FALSE, errno |-> n]

\* what the operating system answers to one DeviceIoControl system call:
\* the return value, the thread's last-error value read afterwards and the
\* number written to *bytesReturned
SysOutcome(r, e, b) == [ret |-> r, lastError |-> e, bytes |-> b]

\* syscall.GetLastError(): nil when the last-error value is 0
GetLastError(lastError) ==
    IF lastError # 0 THEN Errno(lastError) ELSE NilError

\* DeviceIoControl: (false, GetLastError()) when the call returns 0,
\* (true, nil) otherwise
DeviceIoControl(sys) ==
    IF sys.ret = 0 THEN [ok |-> FALSE, err |-> GetLastError(sys.lastError)]
    ELSE [ok |-> TRUE, err |-> NilError]

\* a classifier that takes access-denied for "not recognized"
ValidForErrno_DeniedUnrecognized(errno) ==
    IF errno \in {ERROR_INSUFFICIENT_BUFFER, ERROR_MORE_DATA, ERROR_INVALID_PARAMETER,
                  ERROR_BAD_LENGTH, ERROR_INVALID_USER_BUFFER}
        THEN TRUE
    ELSE IF errno \in {ERROR_INVALID_FUNCTION, ERROR_NOT_SUPPORTED,
                       ERROR_CALL_NOT_IMPLEMENTED, ERROR_ACCESS_DENIED}
        THEN FALSE
    ELSE TRUE

\* a classifier whose default case drops the code
ValidForErrno_DefaultInvalid(errno) ==
    IF errno \in {ERROR_INSUFFICIENT_BUFFER, ERROR_MORE_DATA, ERROR_INVALID_PARAMETER,
                  ERROR_BAD_LENGTH, ERROR_INVALID_USER_BUFFER, ERROR_ACCESS_DENIED}
        THEN TRUE
    ELSE FALSE

\* the switch of ProbeIOCTL over the errno of a failed call
ValidForErrno(errno) ==
    IF errno \in {ERROR_INSUFFICIENT_BUFFER, ERROR_MORE_DATA, ERROR_INVALID_PARAMETER,
                  ERROR_BAD_LENGTH, ERROR_INVALID_USER_BUFFER, ERROR_ACCESS_DENIED}
        THEN TRUE
    ELSE IF errno \in {ERROR_INVALID_FUNCTION, ERROR_NOT_SUPPORTED,
                       ERROR_CALL_NOT_IMPLEMENTED}
        THEN FALSE
    ELSE TRUE

\* a probe that reports the byte count of successful calls only
ProbeIOCTL_BytesOnSuccessOnly(sys, ioctlCode) ==
    LET err == DeviceIoControl(sys).err
    IN  [Code |-> ioctlCode,
         Valid |-> IF err.isNil THEN TRUE ELSE ValidForErrno(err.errno),
         ErrorCode |-> err,
         BytesReturned |-> IF err.isNil THEN sys.bytes ELSE 0]

\* ProbeIOCTL(hDevice, ioctlCode), given the system's answer to its one call.
\* DeviceIoControl returns nil or a syscall.Errno, so the type assertion
\* err.(syscall.Errno) succeeds for every non-nil error.
ProbeIOCTL(sys, ioctlCode) ==
    LET err == DeviceIoControl(sys).err
    IN  [Code |-> ioctlCode,
         Valid |-> IF err.isNil THEN TRUE ELSE ValidForErrno(err.errno),
         ErrorCode |-> err,
         BytesReturned |-> sys.bytes]

\* the record of one call made to DeviceIoControl
Call(ioctlCode, sys) ==
    [code |-> ioctlCode, inBufferSize |-> ProbeInBufferSize,
     outBufferSize |-> ProbeOutBufferSize, sys |-> sys]

(***************************************************************************)
(* The device behind the handle: a stub with a fixed answer for each code  *)
(***************************************************************************)
\* answers of a driver that knows the code
KnownAnswers ==
    << SysOutcome(1, 0, ProbeOutBufferSize),
       SysOutcome(0, ERROR_INSUFFICIENT_BUFFER, 0),
       SysOutcome(0, ERROR_ACCESS_DENIED, 0),
       SysOutcome(0, ERROR_MORE_DATA, ProbeOutBufferSize),
       SysOutcome(0, ERROR_INVALID_PARAMETER, 0),
       SysOutcome(0, ERROR_BAD_LENGTH, 0),
       SysOutcome(0, ERROR_INVALID_USER_BUFFER, 0) >>

\* answers of a driver that does not know the code
UnknownAnswers ==
    << SysOutcome(0, ERROR_INVALID_FUNCTION, 0),
       SysOutcome(0, ERROR_NOT_SUPPORTED, 0),
       SysOutcome(0, ERROR_CALL_NOT_IMPLEMENTED, 0) >>

\* the stub knows one code in every d.period, starting at d.phase; when the
\* handle is not open the call never reaches a driver and every call fails
\* with ERROR_INVALID_HANDLE
DeviceOutcome(d, c) ==
    LET k == (c.lo + c.hi + d.phase) % d.period
    IN  IF d.handle # "open"
            THEN SysOutcome(0, ERROR_INVALID_HANDLE, 0)
        ELSE IF k = 0
            THEN KnownAnswers[(((c.lo \div 4) + c.hi) % Len(KnownAnswers)) + 1]
        ELSE UnknownAnswers[(k % Len(UnknownAnswers)) + 1]

(***************************************************************************)
(* DiscoverIOCTLsByDeviceType: tables and loop positions                   *)
(***************************************************************************)
functionRanges ==
    << [start |-> 0, end |-> 256],
       [start |-> 1024, end |-> 1536],
       [start |-> 2048, end |-> 2304],
       [start |-> 3840, end |-> 4095] >>

methods == <<METHOD_BUFFERED, METHOD_IN_DIRECT, METHOD_OUT_DIRECT, METHOD_NEITHER>>

accessLevels == <<FILE_ANY_ACCESS, FILE_READ_ACCESS, FILE_WRITE_ACCESS, 3>>

\* a position of the two outer loops: range and function value
Pos(r, f) == [done |-> FALSE, rangeIdx |-> r, function |-> f]

\* all loops left
PosDone == [done |-> TRUE, rangeIdx |-> Len(functionRanges), function |-> U32(0)]

\* function loops whose bound is exclusive (function < funcRange.end)
NextFunction_ExclusiveEnd(r, f) ==
    IF ~Leq(U32(functionRanges[r].end), Inc(f)) THEN Pos(r, Inc(f))
    ELSE IF r < Len(functionRanges)
        THEN Pos(r + 1, U32(functionRanges[r + 1].start))
    ELSE PosDone

\* nextFunction: function++, then the next range when the range is exhausted
NextFunction(r, f) ==
    IF Leq(Inc(f), U32(functionRanges[r].end)) THEN Pos(r, Inc(f))
    ELSE IF r < Len(functionRanges)
        THEN Pos(r + 1, U32(functionRanges[r + 1].start))
    ELSE PosDone

\* a position of the two inner loops: method and access, or the loops left
Pair(m, a) == [leave |-> FALSE, mi |-> m, ai |-> a]

Leave == [leave |-> TRUE, mi |-> 1, ai |-> 1]

\* the pair after (m, a) in the order of the loops, methods outer
NextPair(m, a) ==
    IF a < Len(accessLevels) THEN Pair(m, a + 1)
    ELSE IF m < Len(methods) THEN Pair(m + 1, 1)
    ELSE Leave

\* inner loops without the goto: every pair of the function is probed
PairAfter_NoEarlyExit(valid, m, a) == NextPair(m, a)

\* inner loops whose hit leaves the access loop only (break for goto)
PairAfter_BreakInnerOnly(valid, m, a) ==
    IF valid THEN (IF m < Len(methods) THEN Pair(m + 1, 1) ELSE Leave)
    ELSE NextPair(m, a)

\* where the inner loops stand after the probe of pair (m, a):
\* `goto nextFunction` when the probe was Valid
PairAfter(valid, m, a) == IF valid THEN Leave ELSE NextPair(m, a)

RECURSIVE ProbeFunction(_, _, _, _, _)
\* the inner loops for one function value f, from pair (m, a) on: the
\* sequence of probes made, each with its call and its result
ProbeFunction(d, t, f, m, a) ==
    LET c == CTL_CODE(t, f, U32(methods[m]), U32(accessLevels[a]))
        sys == DeviceOutcome(d, c)
        r == ProbeIOCTL(sys, c)
        next == PairAfter(r.Valid, m, a)
    IN  <<[call |-> Call(c, sys), result |-> r]>>
        \o (IF next.leave THEN << >> ELSE ProbeFunction(d, t, f, next.mi, next.ai))

(***************************************************************************)
(* State                                                                   *)
(***************************************************************************)
VARIABLES
    cpc,         \* codec run: "start", "coded" (a code is at hand), "decoded"
    args,        \* the arguments given to CTL_CODE, or NoArgs for a raw code
    code,        \* the control code at hand
    components,  \* the *IOCTLComponents returned by DecodeIOCTL
    dev,         \* the device stub behind hDevice
    pc,          \* engine run: "idle", "scan", "discover", "done"
    deviceType,  \* argument of DiscoverIOCTLsByDeviceType
    startCode,   \* arguments of ScanIOCTLRange
    endCode,
    cur,         \* loop variable `code` of ScanIOCTLRange
    pos,         \* loop position of DiscoverIOCTLsByDeviceType
    result,      \* the IOCTLProbeResult of the last ProbeIOCTL
    results,     \* the slice being accumulated, returned at "done"
    probeLog,    \* history: the calls made to DeviceIoControl (by a scan: all
                 \* of them; by a discovery: those for the function value
                 \* probed last)
    probeCode,   \* argument of the last direct call of ProbeIOCTL
    run,         \* which invocation of ScanIOCTLRange is at hand: 1 or 2
    returned,    \* the slice returned by the first invocation
    outstanding, \* the device-control calls submitted and not yet returned
    pair,        \* position of the method and access loops
    text,        \* the string returned by FormatIOCTL, in pieces
    svcdb,       \* the service database's entry for the driver's name
    handles,     \* the service handles opened so far
    calls,       \* the service calls issued by the last driver operation
    ret,         \* what the last driver operation returned
    op,          \* the last driver operation and its arguments
    qpc,         \* query run: "idle", "loop", "done", "panic"
    ex,          \* the run is one of NtQuerySystemInformationEx
    size,        \* local `size` of the query run
    attempts,    \* loop variable `attempts`
    returnLen,   \* local `returnLen`, written by the system call
    queries,     \* the calls of the underlying query made by the run
    out          \* the buffer and status the run returned

codecVars == <<cpc, args, code, components>>

engineVars == <<dev, pc, deviceType, startCode, endCode, cur, pos, result, results,
                probeLog>>

sessionVars == <<probeCode, run, returned, outstanding, pair>>

formatVars == <<text>>

driverVars == <<svcdb, handles, calls, ret, op>>

queryVars == <<qpc, ex, size, attempts, returnLen, queries, out>>

vars == <<cpc, args, code, components, dev, pc, deviceType, startCode, endCode, cur,
          pos, result, results, probeLog, probeCode, run, returned, outstanding, pair,
          text, svcdb, handles, calls, ret, op, qpc, ex, size, attempts, returnLen,
          queries, out>>

(***************************************************************************)
(* Inputs of the codec                                                     *)
(***************************************************************************)
\* how far the sampled field values extend around each boundary value
Edge == 1

\* how many multiples of a field's range are added to make oversized values
Over == 1

Near(S) == UNION {(v - Edge)..(v + Edge) : v \in S}

\* oversized values for a field of w bits (w <= 12): beyond the field, beyond
\* the low half, and all 32 bits set
Wide(w) ==
    {Word(0, Pow2(w) * j + Pow2(w) - 1) : j \in 1..Over}
    \cup {Word(j, 1) : j \in 1..Over}
    \cup {AllOnes}

DeviceTypesInRange ==
    {Word(0, v) : v \in Near({0, FILE_DEVICE_DISK, FILE_DEVICE_MASS_STORAGE, 59,
                              CustomDeviceTypeBase, Half - 1}) \cap 0..(Half - 1)}

DeviceTypeInputs ==
    DeviceTypesInRange \cup {Word(j, v) : j \in 1..Over, v \in {0, FILE_DEVICE_DISK}}
    \cup {AllOnes}

FunctionsInRange ==
    {Word(0, v) : v \in Near({0, 1280, MaskFunction}) \cap 0..MaskFunction}

FunctionInputs == FunctionsInRange \cup Wide(12)

MethodsInRange == {Word(0, v) : v \in 0..MaskMethod}

MethodInputs == MethodsInRange \cup Wide(2)

AccessInRange == {Word(0, v) : v \in 0..MaskAccess}

AccessInputs == AccessInRange \cup Wide(2)

\* raw 32-bit codes given to the decoder: the known codes and their
\* neighbours, and the ends of the 32-bit range
RawCodes ==
    DOMAIN knownIOCTLs \cup {Inc(k) : k \in DOMAIN knownIOCTLs}
    \cup {Word(h, l) : h \in {0, 60, CustomDeviceTypeBase - 1, Half - 1},
                       l \in Near({0, Half - 1}) \cap 0..(Half - 1)}

NoArgs == [given |-> FALSE, deviceType |-> U32(0), function |-> U32(0),
           method |-> U32(0), access |-> U32(0)]

NoComponents == DecodeIOCTL(U32(0))

CodecInit ==
    /\ cpc = "start"
    /\ args = NoArgs
    /\ code = U32(0)
    /\ components = NoComponents

(***************************************************************************)
(* Operations of the codec                                                 *)
(***************************************************************************)
\* code := CTL_CODE(deviceType, function, method, access)
Encode ==
    /\ cpc = "start"
    /\ \E d \in DeviceTypeInputs, f \in FunctionInputs,
          m \in MethodInputs, a \in AccessInputs :
          /\ args' = [given |-> TRUE, deviceType |-> d, function |-> f,
                      method |-> m, access |-> a]
          /\ code' = CTL_CODE(d, f, m, a)
    /\ cpc' = "coded"
    /\ UNCHANGED components
    /\ UNCHANGED engineVars
    /\ UNCHANGED <<sessionVars, formatVars, driverVars, queryVars>>

\* a caller hands over an arbitrary 32-bit code
PickCode ==
    /\ cpc = "start"
    /\ \E c \in RawCodes : code' = c
    /\ cpc' = "coded"
    /\ UNCHANGED <<args, components>>
    /\ UNCHANGED engineVars
    /\ UNCHANGED <<sessionVars, formatVars, driverVars, queryVars>>

\* components := DecodeIOCTL(code)
Decode ==
    /\ cpc = "coded"
    /\ components' = DecodeIOCTL(code)
    /\ cpc' = "decoded"
    /\ UNCHANGED <<args, code>>
    /\ UNCHANGED engineVars
    /\ UNCHANGED <<sessionVars, formatVars, driverVars, queryVars>>

\* no engine operation has been called
EngineIdle ==
    /\ pc = "idle"
    /\ deviceType = U32(0)
    /\ startCode = U32(0)
    /\ endCode = U32(0)
    /\ cur = U32(0)
    /\ pos = Pos(1, U32(0))
    /\ result = ProbeIOCTL(SysOutcome(1, 0, 0), U32(0))
    /\ results = << >>
    /\ probeLog = << >>

\* no call of ProbeIOCTL, no second invocation, no call in flight
SessionIdle ==
    /\ probeCode = U32(0)
    /\ run = 1
    /\ returned = << >>
    /\ outstanding = << >>
    /\ pair = Pair(1, 1)

\* nothing has been formatted
FormatIdle == text = << >>

\* the driver's service is not registered and no service call has been made
NoService == [exists |-> FALSE, running |-> FALSE, marked |-> FALSE, gen |-> 0]

DriverIdle ==
    /\ svcdb = NoService
    /\ handles = << >>
    /\ calls = << >>
    /\ ret = [handle |-> 0, err |-> "nil"]
    /\ op = [name |-> "none", n |-> 0, h |-> 0, options |-> [given |-> FALSE],
             faults |-> {}, before |-> NoService, wasOpen |-> FALSE]

\* a buffer of the given length, or nil
Buffer(len) == [nil |-> FALSE, len |-> len]

NilBuffer == [nil |-> TRUE, len |-> U32(0)]

\* no query has been called
QueryIdle ==
    /\ qpc = "idle"
    /\ ex = FALSE
    /\ size = U32(0)
    /\ attempts = 0
    /\ returnLen = U32(0)
    /\ queries = << >>
    /\ out = [buf |-> NilBuffer, status |-> U32(0)]

Idle == EngineIdle /\ SessionIdle /\ FormatIdle /\ DriverIdle /\ QueryIdle

InitCodec == CodecInit /\ Idle /\ dev = [period |-> 1, phase |-> 0, handle |-> "open"]

NextCodec == Encode \/ PickCode \/ Decode

SpecCodec == InitCodec /\ [][NextCodec]_vars

(***************************************************************************)
(* Properties of the codec                                                 *)
(***************************************************************************)
\* the arguments of the last CTL_CODE call are within their fields
ArgsInRange ==
    /\ args.given
    /\ args.deviceType.hi = 0
    /\ args.function.hi = 0 /\ args.function.lo <= 4095
    /\ args.method.hi = 0 /\ args.method.lo <= 3
    /\ args.access.hi = 0 /\ args.access.lo <= 3

\* bit i (0..31) of a 32-bit value
Bit(c, i) ==
    IF i < 16 THEN (c.lo \div Pow2(i)) % 2 ELSE (c.hi \div Pow2(i - 16)) % 2

RECURSIVE Field(_, _, _)
\* the number written by bits from..to of c, bit `from` being the lowest
Field(c, from, to) ==
    IF from > to THEN 0 ELSE Bit(c, from) + 2 * Field(c, from + 1, to)

\* C1: decoding CTL_CODE(d, f, m, a) of an in-range quadruple, with the four
\* Extract functions and with DecodeIOCTL, gives d, f, m and a back.
C1_RoundTrip ==
    (cpc = "decoded" /\ ArgsInRange) =>
        /\ ExtractDeviceType(code) = args.deviceType
        /\ ExtractFunction(code) = args.function
        /\ ExtractMethod(code) = args.method
        /\ ExtractAccess(code) = args.access
        /\ components.DeviceType = args.deviceType
        /\ components.Function = args.function
        /\ components.Method = args.method
        /\ components.Access = args.access

C1_Witness ==
    /\ cpc = "decoded"
    /\ ArgsInRange
    /\ args.deviceType = U32(65535)
    /\ args.function = U32(4095)
    /\ args.method = U32(3)
    /\ args.access = U32(3)
    /\ components.Function = U32(4095)

\* C2: for in-range inputs CTL_CODE(d, f, m, a) is d*2^16 + a*2^14 + f*4 + m
\* (d in the high half, the rest in the low half), and for every code the
\* decoded device type is bits 31-16, access bits 15-14, function bits 13-2
\* and method bits 1-0.
C2_BitLayout ==
    /\ (cpc # "start" /\ ArgsInRange) =>
          code = Word(args.deviceType.lo,
                      args.access.lo * 16384 + args.function.lo * 4 + args.method.lo)
    /\ cpc = "decoded" =>
          /\ ExtractDeviceType(code) = Word(0, Field(code, 16, 31))
          /\ ExtractAccess(code) = Word(0, Field(code, 14, 15))
          /\ ExtractFunction(code) = Word(0, Field(code, 2, 13))
          /\ ExtractMethod(code) = Word(0, Field(code, 0, 1))
          /\ components.DeviceType = Word(0, Field(code, 16, 31))
          /\ components.Access = Word(0, Field(code, 14, 15))
          /\ components.Function = Word(0, Field(code, 2, 13))
          /\ components.Method = Word(0, Field(code, 0, 1))

C2_Witness ==
    /\ cpc = "decoded"
    /\ ~args.given
    /\ code = Word(32767, 65534)
    /\ components.Function = U32(4095)
    /\ components.Method = U32(2)

\* C3: CTL_CODE of any four 32-bit inputs is CTL_CODE of the inputs reduced
\* mod 2^16, 2^12, 4 and 4: an oversized value is truncated to its field and
\* leaves the bits of the other fields alone.
C3_MasksOversized ==
    (cpc # "start" /\ args.given) =>
        /\ code = Word(args.deviceType.lo,
                       (args.access.lo % 4) * 16384
                       + (args.function.lo % 4096) * 4
                       + (args.method.lo % 4))
        /\ code = CTL_CODE(Word(0, args.deviceType.lo),
                           Word(0, args.function.lo % 4096),
                           Word(0, args.method.lo % 4),
                           Word(0, args.access.lo % 4))

C3_Witness ==
    /\ cpc = "coded"
    /\ args.given
    /\ args.deviceType = U32(FILE_DEVICE_DISK)
    /\ args.function = Word(0, 8191)
    /\ args.method = AllOnes
    /\ args.access = U32(0)
    /\ code = Word(FILE_DEVICE_DISK, 16383)

C5_KnownName ==
    cpc = "decoded" =>
        /\ code \in DOMAIN knownIOCTLs =>
              /\ components.KnownName = knownIOCTLs[code]
              /\ components.KnownName # ""
        /\ code \notin DOMAIN knownIOCTLs => components.KnownName = ""
        /\ (args.given /\ args.deviceType = U32(7) /\ args.function = U32(0)
            /\ args.method = U32(0) /\ args.access = U32(0)) =>
              /\ components.DeviceTypeName = "DISK"
              /\ components.MethodName = "BUFFERED"
              /\ components.AccessName = "ANY"
              /\ components.KnownName # ""

C5_Witness ==
    /\ cpc = "decoded"
    /\ args.given
    /\ args.deviceType = U32(7) /\ args.function = U32(0)
    /\ args.method = U32(0) /\ args.access = U32(0)
    /\ components.KnownName = "IOCTL_DISK_GET_DRIVE_GEOMETRY"

(***************************************************************************)
(* Inputs of the engine                                                    *)
(***************************************************************************)
\* the last-error values 0..MaxErrno are tried, and the two named ones above
MaxErrno == 130

ErrnoSamples == 0..MaxErrno \cup {ERROR_MORE_DATA, ERROR_INVALID_USER_BUFFER}

\* every answer of the system to one call: success, or failure with any
\* sampled last-error value (0 included: the value read after a failed call
\* need not be the one the call set)
SysOutcomes ==
    {SysOutcome(1, 0, b) : b \in {0, ProbeOutBufferSize}}
    \cup {SysOutcome(0, e, b) : e \in ErrnoSamples, b \in {0, ProbeOutBufferSize}}

ProbeCodes == {U32(0), IOCTL_DISK_GET_PARTITION_INFO, AllOnes}

\* the stubs differ in how dense and where the codes they know are
DevicePeriods == {1, 3, 17}

MaxPhase == 1

Devices == [period : DevicePeriods, phase : 0..MaxPhase, handle : {"open"}]

\* hDevice is 0, INVALID_HANDLE_VALUE or a handle closed before the call
InvalidHandleDevices == [period : {1}, phase : {0}, handle : {"invalid"}]

\* a range scan covers at most MaxScanLen + 1 codes
MaxScanLen == 3

\* probes granted to a scan beyond the longest range, for one that runs on
ExtraProbes == 3

RECURSIVE Plus(_, _)
Plus(x, n) == IF n = 0 THEN x ELSE Plus(Inc(x), n - 1)

ScanStarts ==
    {U32(0), Word(FILE_DEVICE_DISK - 1, Half - 2), Word(Half - 1, Half - 3),
     Word(Half - 1, Half - 2), AllOnes}

\* the number of codes from x up to y, counted up to a limit
RECURSIVE Distance(_, _, _)
Distance(x, y, limit) ==
    IF x = y \/ limit = 0 THEN 0 ELSE 1 + Distance(Inc(x), y, limit - 1)

\* the ranges scanned: up to MaxScanLen + 1 codes from each start, the last
\* ones ending at 0xFFFFFFFF, and the same bounds swapped when that makes
\* start > end
ScanRanges ==
    LET pairs == {[start |-> s, end |-> Plus(s, n)] : s \in ScanStarts, n \in 0..MaxScanLen}
                 \cup {[start |-> Plus(s, n), end |-> s] : s \in ScanStarts, n \in 0..MaxScanLen}
    IN  {p \in pairs : Leq(p.start, p.end) =>
                           Distance(p.start, p.end, MaxScanLen + 1) <= MaxScanLen}

DiscoverDeviceTypes == {U32(FILE_DEVICE_DISK), Word(1, CustomDeviceTypeBase)}

(***************************************************************************)
(* Operations of the engine                                                *)
(***************************************************************************)
\* result := ProbeIOCTL(hDevice, c), the system answering sys
ProbeOne ==
    /\ pc = "idle"
    /\ \E c \in ProbeCodes, sys \in SysOutcomes :
          /\ probeCode' = c
          /\ result' = ProbeIOCTL(sys, c)
          /\ probeLog' = Append(probeLog, Call(c, sys))
    /\ pc' = "done"
    /\ UNCHANGED <<dev, deviceType, startCode, endCode, cur, pos, results>>
    /\ UNCHANGED codecVars
    /\ UNCHANGED <<run, returned, outstanding, pair, formatVars, driverVars, queryVars>>

\* a result slice kept across invocations (a package-level variable)
NewResults_Shared(old) == old

\* var results []IOCTLProbeResult: every invocation starts from a nil slice
NewResults(old) == << >>

\* ScanIOCTLRange(hDevice, s, e) is called: var results; code := startCode
ScanStart ==
    /\ pc = "idle"
    /\ \E s \in ScanRanges :
          /\ startCode' = s.start
          /\ endCode' = s.end
          /\ cur' = s.start
    /\ results' = NewResults(results)
    /\ pc' = "scan"
    /\ UNCHANGED <<dev, deviceType, pos, result, probeLog>>
    /\ UNCHANGED codecVars
    /\ UNCHANGED <<sessionVars, formatVars, driverVars, queryVars>>

\* one iteration: code <= endCode; probe; append when Valid; code++
ScanProbe ==
    /\ pc = "scan"
    /\ Leq(cur, endCode)
    /\ Len(probeLog) < MaxScanLen + 1 + ExtraProbes
    /\ LET sys == DeviceOutcome(dev, cur)
           r == ProbeIOCTL(sys, cur)
       IN  /\ result' = r
           /\ probeLog' = Append(probeLog, Call(cur, sys))
           /\ results' = IF r.Valid THEN Append(results, r) ELSE results
    /\ cur' = Inc(cur)
    /\ UNCHANGED <<dev, pc, deviceType, startCode, endCode, pos>>
    /\ UNCHANGED codecVars
    /\ UNCHANGED <<sessionVars, formatVars, driverVars, queryVars>>

\* the loop condition fails: return results
ScanReturn ==
    /\ pc = "scan"
    /\ ~Leq(cur, endCode)
    /\ pc' = "done"
    /\ UNCHANGED <<dev, deviceType, startCode, endCode, cur, pos, result, results,
                   probeLog>>
    /\ UNCHANGED codecVars
    /\ UNCHANGED <<sessionVars, formatVars, driverVars, queryVars>>

\* the first invocation has returned; ScanIOCTLRange is called once more with
\* the same handle, startCode and endCode
ScanAgain ==
    /\ pc = "done"
    /\ run = 1
    /\ returned' = results
    /\ run' = 2
    /\ results' = NewResults(results)
    /\ cur' = startCode
    /\ probeLog' = << >>
    /\ pc' = "scan"
    /\ UNCHANGED <<dev, deviceType, startCode, endCode, pos, result>>
    /\ UNCHANGED codecVars
    /\ UNCHANGED <<probeCode, outstanding, pair, formatVars, driverVars, queryVars>>

\* DiscoverIOCTLsByDeviceType(hDevice, t) is called: the loops are entered
DiscoverStart ==
    /\ pc = "idle"
    /\ \E t \in DiscoverDeviceTypes : deviceType' = t
    /\ pos' = Pos(1, U32(functionRanges[1].start))
    /\ results' = << >>
    /\ pc' = "discover"
    /\ UNCHANGED <<dev, startCode, endCode, cur, result, probeLog>>
    /\ UNCHANGED codecVars
    /\ UNCHANGED <<sessionVars, formatVars, driverVars, queryVars>>

\* a probe whose result is appended
IsValidProbe(p) == p.result.Valid

\* the results appended by a sequence of probes: those that are Valid
ValidResults(probes) ==
    LET valid == SelectSeq(probes, IsValidProbe)
    IN  [i \in 1..Len(valid) |-> valid[i].result]

\* one iteration of the function loop: the method and access loops probe the
\* pairs of pos.function up to the first Valid one, which is appended; then
\* nextFunction, and return results when the last range is exhausted
DiscoverFunction ==
    /\ pc = "discover"
    /\ \E probes \in {ProbeFunction(dev, deviceType, pos.function, 1, 1)},
          next \in {NextFunction(pos.rangeIdx, pos.function)} :
          /\ cur' = probes[Len(probes)].call.code
          /\ result' = probes[Len(probes)].result
          /\ results' = results \o ValidResults(probes)
          /\ probeLog' = [i \in 1..Len(probes) |-> probes[i].call]
          /\ pos' = next
          /\ pc' = IF next.done THEN "done" ELSE "discover"
    /\ UNCHANGED <<dev, deviceType, startCode, endCode>>
    /\ UNCHANGED codecVars
    /\ UNCHANGED <<sessionVars, formatVars, driverVars, queryVars>>

InitEngine == CodecInit /\ Idle /\ dev \in Devices

InitProbe == InitEngine

NextProbe == ProbeOne

SpecProbe == InitProbe /\ [][NextProbe]_vars

InitScan == InitEngine

NextScan == ScanStart \/ ScanProbe \/ ScanReturn

SpecScan == InitScan /\ [][NextScan]_vars

InitDiscover == InitEngine

NextDiscover == DiscoverStart \/ DiscoverFunction

SpecDiscover == InitDiscover /\ [][NextDiscover]_vars

(***************************************************************************)
(* Properties of the classifier                                            *)
(***************************************************************************)
\* the system's answer to the last call made
LastSys == probeLog[Len(probeLog)].sys

\* C6: a probe is recognized (Valid) whenever the device-control call
\* succeeded, and whenever it failed with insufficient buffer (122), more
\* data (234), invalid parameter (87), bad length (24), invalid user buffer
\* (1784) or access denied (5).
C6_RecognizedSignals ==
    (pc = "done" /\ probeLog # << >>) =>
        /\ LastSys.ret # 0 => result.Valid
        /\ (LastSys.ret = 0 /\ LastSys.lastError \in {122, 234, 87, 24, 1784, 5})
              => result.Valid

C6_Witness ==
    /\ pc = "done"
    /\ probeLog # << >>
    /\ LastSys.ret = 0
    /\ LastSys.lastError = 5
    /\ result.ErrorCode = Errno(5)
    /\ result.Valid

\* C7: Valid is false exactly when the call failed with invalid function
\* (1), not supported (50) or call not implemented (120); a failure with any
\* signal outside both named sets is recognized.
C7_UnrecognizedSignals ==
    (pc = "done" /\ probeLog # << >>) =>
        (~result.Valid <=> (LastSys.ret = 0 /\ LastSys.lastError \in {1, 50, 120}))

C7_Witness ==
    /\ pc = "done"
    /\ probeLog # << >>
    /\ LastSys.ret = 0
    /\ LastSys.lastError = 6
    /\ result.ErrorCode = Errno(6)
    /\ result.Valid

(***************************************************************************)
(* Properties of DiscoverIOCTLsByDeviceType                                *)
(***************************************************************************)
\* the function field of a code, as a number
FunctionOf(c) == (c.lo \div 4) % 4096

\* the code of function value f with the i-th (method, access) pair of the
\* scan order, i in 0..15: methods 0..3 outer, access 0..3 inner
ComboCode(t, f, i) == Word(t.lo, (i % 4) * 16384 + f * 4 + (i \div 4))

\* the device's answer to code c makes a probe of c recognized
Recognized(c) ==
    LET sys == DeviceOutcome(dev, c)
    IN  sys.ret # 0 \/ sys.lastError \notin {1, 50, 120}

\* the positions, in scan order, of the recognized pairs of function value f
Hits(f) == {i \in 0..15 : Recognized(ComboCode(deviceType, f, i))}

HasHit(f) == Hits(f) # {}

FirstHit(f) == CHOOSE i \in Hits(f) : \A j \in Hits(f) : i <= j

\* the function values of the four sub-ranges, in scan order
FunctionOrder ==
    [k \in 1..257 |-> k - 1] \o [k \in 1..513 |-> 1023 + k]
    \o [k \in 1..257 |-> 2047 + k] \o [k \in 1..256 |-> 3839 + k]

\* the codes a complete discovery is to return
ExpectedCodes ==
    LET hit == SelectSeq(FunctionOrder, HasHit)
    IN  [k \in 1..Len(hit) |-> ComboCode(deviceType, hit[k], FirstHit(hit[k]))]

\* the function value the discovery has probed last
LastFunction == FunctionOf(probeLog[1].code)

\* C8: probing of a function value stops at its first recognized pair: the
\* result holds exactly one entry for each scanned function value that has a
\* recognized pair, none for any other, and the entry is the first
\* recognized pair in scan order.
C8_OneEntryPerFunction ==
    /\ (pc \in {"discover", "done"} /\ probeLog # << >>) =>
          IF HasHit(LastFunction)
              THEN /\ results # << >>
                   /\ results[Len(results)].Code
                        = ComboCode(deviceType, LastFunction, FirstHit(LastFunction))
                   /\ Len(results) >= 2 =>
                        FunctionOf(results[Len(results) - 1].Code) # LastFunction
          ELSE results = << >>
               \/ FunctionOf(results[Len(results)].Code) # LastFunction
    /\ pc = "done" => [k \in 1..Len(results) |-> results[k].Code] = ExpectedCodes

C8_Witness ==
    /\ pc = "done"
    /\ dev.period = 17
    /\ Len(results) > 1000
    /\ Len(results) < Len(FunctionOrder)
    /\ \E k \in 1..4 : results[k].Code.lo % 4 # 0

\* a logged call was answered in a way that makes its probe recognized
RecognizedCall(call) == call.sys.ret # 0 \/ call.sys.lastError \notin {1, 50, 120}

\* C9: the probes made for a function value are the pairs in scan order up
\* to its first recognized pair: hit-index + 1 of them, 16 when no pair is
\* recognized, and none after the first hit.
C9_ProbesPerFunction ==
    (pc \in {"discover", "done"} /\ probeLog # << >>) =>
        /\ \A i \in 1..Len(probeLog) :
              probeLog[i].code = ComboCode(deviceType, LastFunction, i - 1)
        /\ \A i \in 1..(Len(probeLog) - 1) : ~RecognizedCall(probeLog[i])
        /\ IF HasHit(LastFunction)
              THEN Len(probeLog) <= FirstHit(LastFunction) + 1
                   /\ RecognizedCall(probeLog[Len(probeLog)])
           ELSE Len(probeLog) = 16

C9_Witness ==
    /\ pc = "discover"
    /\ Len(probeLog) = 16
    /\ \A i \in 1..16 : ~RecognizedCall(probeLog[i])
    /\ ~result.Valid

(***************************************************************************)
(* Properties of ScanIOCTLRange                                            *)
(***************************************************************************)
\* the calls of a scan are the codes from startCode on, ascending, within
\* [startCode, endCode]
ScanAscending ==
    \A i \in 1..Len(probeLog) :
        /\ probeLog[i].code = Plus(startCode, i - 1)
        /\ Leq(startCode, probeLog[i].code)
        /\ Leq(probeLog[i].code, endCode)
        /\ i > 1 => ~Leq(probeLog[i].code, probeLog[i - 1].code)

\* the scan returns, having probed all of [startCode, endCode], the Valid
\* results in the order of the codes
ScanComplete ==
    /\ Len(probeLog) = Distance(startCode, endCode, MaxScanLen + 1) + 1
    /\ probeLog[Len(probeLog)].code = endCode
    /\ LET recognized == SelectSeq(probeLog, RecognizedCall)
       IN  /\ Len(results) = Len(recognized)
           /\ \A k \in 1..Len(results) :
                 /\ results[k].Code = recognized[k].code
                 /\ results[k].Valid

\* C10: for start <= end, ScanIOCTLRange probes every code of [start, end]
\* exactly once, in ascending order and without early termination, and
\* returns exactly the probed codes whose result is Valid, in ascending order.
C10_ScanProbesRangeOnce ==
    (pc \in {"scan", "done"} /\ Leq(startCode, endCode)) =>
        /\ ScanAscending
        /\ pc = "done" => ScanComplete
        /\ (pc = "scan" /\ ~Leq(cur, endCode)) => ScanComplete
        /\ Len(probeLog) <= Distance(startCode, endCode, MaxScanLen + 1) + 1

\* the same for the ranges that end below 0xFFFFFFFF
C10_BelowMax ==
    endCode # AllOnes => C10_ScanProbesRangeOnce

\* the number of codes in [startCode, endCode]: end - start + 1
RangeSize == Distance(startCode, endCode, MaxScanLen + 1) + 1

\* C11: for every start <= end, end = 0xFFFFFFFF included, ScanIOCTLRange
\* terminates after exactly end - start + 1 device-control calls: it never
\* makes more, it leaves the loop once it has made that many, and it has made
\* that many when it returns.
C11_ScanTerminates ==
    (pc \in {"scan", "done"} /\ Leq(startCode, endCode)) =>
        /\ Len(probeLog) <= RangeSize
        /\ (pc = "scan" /\ Len(probeLog) = RangeSize) => ~Leq(cur, endCode)
        /\ pc = "done" => Len(probeLog) = RangeSize

\* the same for the ranges that end below 0xFFFFFFFF
C11_BelowMax ==
    endCode # AllOnes => C11_ScanTerminates

(***************************************************************************)
(* The scans on a handle that is not open                                  *)
(***************************************************************************)
InitAbort == CodecInit /\ Idle /\ dev \in InvalidHandleDevices

NextAbort ==
    ScanStart \/ ScanProbe \/ ScanReturn \/ DiscoverStart \/ DiscoverFunction

SpecAbort == InitAbort /\ [][NextAbort]_vars

\* C12: when the device handle is invalid, the handle error aborts
\* ScanIOCTLRange and DiscoverIOCTLsByDeviceType at once: no probe is issued
\* after the first failing one, and the failing code is neither classified
\* as recognized nor accumulated in the result.
C12_HandleErrorAborts ==
    dev.handle # "open" =>
        /\ results = << >>
        /\ probeLog # << >> => ~result.Valid
        /\ pc = "scan" => Len(probeLog) <= 1
        /\ (pc \in {"discover", "done"} /\ probeLog # << >>) =>
              LastFunction = functionRanges[1].start /\ Len(probeLog) <= 1

(***************************************************************************)
(* The sub-ranges of DiscoverIOCTLsByDeviceType                            *)
(***************************************************************************)
\* [0,0x100], [0x400,0x600], [0x800,0x900], [0xF00,0xFFF]
InSubRanges(f) ==
    \/ 0 <= f /\ f <= 256
    \/ 1024 <= f /\ f <= 1536
    \/ 2048 <= f /\ f <= 2304
    \/ 3840 <= f /\ f <= 4095

\* the place of function value f in the scan order of the four sub-ranges
OrderIndex(f) ==
    IF f <= 256 THEN f + 1
    ELSE IF f <= 1536 THEN 257 + (f - 1023)
    ELSE IF f <= 2304 THEN 257 + 513 + (f - 2047)
    ELSE 257 + 513 + 257 + (f - 3839)

\* the function values of a result sequence increase strictly
StrictlyIncreasing(rs) ==
    \A k \in 1..(Len(rs) - 1) : FunctionOf(rs[k].Code) < FunctionOf(rs[k + 1].Code)

\* what is probed lies in the union, and the entries keep the scan order
SubRangesOnly ==
    (pc \in {"discover", "done"} /\ probeLog # << >>) =>
        /\ \A i \in 1..Len(probeLog) : InSubRanges(FunctionOf(probeLog[i].code))
        /\ FunctionOrder[OrderIndex(LastFunction)] = LastFunction
        /\ results # << >> => FunctionOf(results[Len(results)].Code) <= LastFunction
        /\ Len(results) >= 2 =>
              FunctionOf(results[Len(results) - 1].Code)
                 < FunctionOf(results[Len(results)].Code)
        /\ pc = "done" => StrictlyIncreasing(results)

\* a step of the discovery visits the function value that follows the one
\* visited before in the scan order, starting with the first and returning
\* after the last
VisitsNextInOrder ==
    pc = "discover" =>
        /\ probeLog' # << >>
        /\ IF probeLog = << >> THEN LastFunction' = FunctionOrder[1]
           ELSE /\ OrderIndex(LastFunction) < Len(FunctionOrder)
                /\ LastFunction' = FunctionOrder[OrderIndex(LastFunction) + 1]
        /\ pc' = "done" <=> LastFunction' = FunctionOrder[Len(FunctionOrder)]

InitRepeat == InitEngine

NextRepeat == ScanStart \/ ScanProbe \/ ScanReturn \/ ScanAgain

SpecRepeat == InitRepeat /\ [][NextRepeat]_vars

C15_ProbeOneCall ==
    (pc = "done" /\ probeLog # << >>) =>
        /\ Len(probeLog) = 1
        /\ probeLog[1].code = probeCode
        /\ probeLog[1].inBufferSize = 16
        /\ probeLog[1].outBufferSize = 256
        /\ result.Code = probeCode
        /\ result.BytesReturned = probeLog[1].sys.bytes
        /\ result.ErrorCode =
              IF probeLog[1].sys.ret # 0 \/ probeLog[1].sys.lastError = 0
                  THEN [isNil |-> TRUE, errno |-> 0]
              ELSE [isNil |-> FALSE, errno |-> probeLog[1].sys.lastError]

C15_Witness ==
    /\ pc = "done"
    /\ Len(probeLog) = 1
    /\ probeCode = AllOnes
    /\ probeLog[1].sys = [ret |-> 0, lastError |-> 234, bytes |-> 256]
    /\ result.Code = AllOnes
    /\ result.BytesReturned = 256
    /\ result.ErrorCode.errno = 234

(***************************************************************************)
(* The scans, call by call: a call is submitted, then it returns           *)
(***************************************************************************)
\* a probe whose call is overlapped: it returns while the request is pending
ProbeOverlapped_Async == TRUE

\* ProbeIOCTL passes nil for the OVERLAPPED structure: the call is
\* synchronous and returns when the device has answered
ProbeOverlapped == FALSE

\* the answer of an overlapped call that has not completed: failure with
\* ERROR_IO_PENDING (997)
PendingOutcome == SysOutcome(0, 997, 0)

\* the candidate of the discovery at its loop position
Candidate ==
    CTL_CODE(deviceType, pos.function, U32(methods[pair.mi]), U32(accessLevels[pair.ai]))

\* the rest of an iteration of ScanIOCTLRange once ProbeIOCTL has returned r
ScanAdvance(r) ==
    /\ result' = r
    /\ results' = IF r.Valid THEN Append(results, r) ELSE results
    /\ cur' = Inc(cur)
    /\ pc' = "scan"

\* the rest of an iteration of the inner loops once ProbeIOCTL has returned r
DiscoverAdvance(r) ==
    \E next \in {PairAfter(r.Valid, pair.mi, pair.ai)},
       after \in {NextFunction(pos.rangeIdx, pos.function)} :
        /\ result' = r
        /\ results' = IF r.Valid THEN Append(results, r) ELSE results
        /\ pair' = IF next.leave THEN Pair(1, 1) ELSE Pair(next.mi, next.ai)
        /\ pos' = IF next.leave THEN after ELSE pos
        /\ pc' = IF next.leave /\ after.done THEN "done" ELSE "discover"

\* ScanIOCTLRange: code <= endCode, and ProbeIOCTL submits the call for code
ScanSubmit ==
    /\ pc = "scan"
    /\ Leq(cur, endCode)
    /\ Len(probeLog) < MaxScanLen + 1 + ExtraProbes
    /\ outstanding' = Append(outstanding, cur)
    /\ IF ProbeOverlapped
          THEN /\ ScanAdvance(ProbeIOCTL(PendingOutcome, cur))
               /\ probeLog' = Append(probeLog, Call(cur, PendingOutcome))
       ELSE /\ pc' = "scan-call"
            /\ UNCHANGED <<cur, result, results, probeLog>>
    /\ UNCHANGED <<dev, deviceType, startCode, endCode, pos>>
    /\ UNCHANGED codecVars
    /\ UNCHANGED <<probeCode, run, returned, pair, formatVars, driverVars, queryVars>>

\* the device answers the oldest outstanding call; the thread blocked in it
\* goes on: ProbeIOCTL classifies the answer and the loop appends and steps
ScanAnswer ==
    /\ outstanding # << >>
    /\ \/ pc = "scan-call"
       \/ pc = "scan" /\ ProbeOverlapped
    /\ outstanding' = Tail(outstanding)
    /\ IF pc = "scan-call"
          THEN \E sys \in {DeviceOutcome(dev, Head(outstanding))} :
                  /\ ScanAdvance(ProbeIOCTL(sys, cur))
                  /\ probeLog' = Append(probeLog, Call(cur, sys))
       ELSE UNCHANGED <<cur, result, results, probeLog, pc>>
    /\ UNCHANGED <<dev, deviceType, startCode, endCode, pos>>
    /\ UNCHANGED codecVars
    /\ UNCHANGED <<probeCode, run, returned, pair, formatVars, driverVars, queryVars>>

\* DiscoverIOCTLsByDeviceType: code := CTL_CODE(...), and ProbeIOCTL submits
\* the call for code
DiscoverSubmit ==
    /\ pc = "discover"
    /\ \E c \in {Candidate} :
          /\ cur' = c
          /\ outstanding' = Append(outstanding, c)
          /\ IF ProbeOverlapped
                THEN /\ DiscoverAdvance(ProbeIOCTL(PendingOutcome, c))
                     /\ probeLog' = <<Call(c, PendingOutcome)>>
             ELSE /\ pc' = "discover-call"
                  /\ UNCHANGED <<pos, pair, result, results, probeLog>>
    /\ UNCHANGED <<dev, deviceType, startCode, endCode>>
    /\ UNCHANGED codecVars
    /\ UNCHANGED <<probeCode, run, returned, formatVars, driverVars, queryVars>>

\* the device answers the oldest outstanding call of the discovery
DiscoverAnswer ==
    /\ outstanding # << >>
    /\ \/ pc = "discover-call"
       \/ pc = "discover" /\ ProbeOverlapped
    /\ outstanding' = Tail(outstanding)
    /\ IF pc = "discover-call"
          THEN \E sys \in {DeviceOutcome(dev, Head(outstanding))} :
                  /\ DiscoverAdvance(ProbeIOCTL(sys, cur))
                  /\ probeLog' = IF pair = Pair(1, 1) THEN <<Call(cur, sys)>>
                                 ELSE Append(probeLog, Call(cur, sys))
       ELSE UNCHANGED <<pos, pair, result, results, probeLog, pc>>
    /\ UNCHANGED <<dev, deviceType, startCode, endCode, cur>>
    /\ UNCHANGED codecVars
    /\ UNCHANGED <<probeCode, run, returned, formatVars, driverVars, queryVars>>

InitSync == InitEngine

NextSync ==
    \/ ScanStart \/ ScanSubmit \/ ScanAnswer \/ ScanReturn
    \/ DiscoverStart \/ DiscoverSubmit \/ DiscoverAnswer

SpecSync == InitSync /\ [][NextSync]_vars

HexDigits ==
    <<"0", "1", "2", "3", "4", "5", "6", "7", "8", "9", "A", "B", "C", "D", "E", "F">>

RECURSIVE HexOf(_)
\* the hexadecimal digits of a number below 2^16, without leading zeros
HexOf(n) ==
    IF n < 16 THEN <<HexDigits[n + 1]>>
    ELSE HexOf(n \div 16) \o <<HexDigits[(n % 16) + 1]>>

\* the four hexadecimal digits of a 16-bit half
HexHalf(n) ==
    <<HexDigits[(n \div 4096) + 1], HexDigits[((n \div 256) % 16) + 1],
      HexDigits[((n \div 16) % 16) + 1], HexDigits[(n % 16) + 1]>>

\* a format that pads the number to three digits ("%03X")
SprintfX_Padded3(v) ==
    IF v.hi # 0 THEN HexOf(v.hi) \o HexHalf(v.lo)
    ELSE IF v.lo < 256 THEN SubSeq(HexHalf(v.lo), 2, 4)
    ELSE HexOf(v.lo)

\* fmt.Sprintf("%X", v) for a uint32: upper-case digits, no padding
SprintfX(v) ==
    IF v.hi # 0 THEN HexOf(v.hi) \o HexHalf(v.lo) ELSE HexOf(v.lo)

FormatIOCTL(ioctlCode) ==
    LET c == DecodeIOCTL(ioctlCode)
    IN  (IF c.KnownName # "" THEN <<c.KnownName, ": ">> ELSE << >>)
        \o <<c.DeviceTypeName, "(function:0x">>
        \o SprintfX(c.Function)
        \o <<", method:", c.MethodName, ", access:", c.AccessName, ")">>

\* text := FormatIOCTL(code)
Format ==
    /\ cpc = "coded"
    /\ text' = FormatIOCTL(code)
    /\ cpc' = "formatted"
    /\ UNCHANGED <<args, code, components>>
    /\ UNCHANGED engineVars
    /\ UNCHANGED <<sessionVars, driverVars, queryVars>>

InitFormat == InitCodec

NextFormat == Encode \/ PickCode \/ Format

SpecFormat == InitFormat /\ [][NextFormat]_vars

\* the value of an upper-case hexadecimal digit
UpperHexValue ==
    [d \in {"0", "1", "2", "3", "4", "5", "6", "7", "8", "9",
            "A", "B", "C", "D", "E", "F"} |->
        CASE d = "0" -> 0 [] d = "1" -> 1 [] d = "2" -> 2 [] d = "3" -> 3
          [] d = "4" -> 4 [] d = "5" -> 5 [] d = "6" -> 6 [] d = "7" -> 7
          [] d = "8" -> 8 [] d = "9" -> 9 [] d = "A" -> 10 [] d = "B" -> 11
          [] d = "C" -> 12 [] d = "D" -> 13 [] d = "E" -> 14 [] d = "F" -> 15]

RECURSIVE HexValue(_)
\* the number written by a sequence of upper-case hexadecimal digits
HexValue(ds) ==
    IF ds = << >> THEN 0
    ELSE 16 * HexValue(SubSeq(ds, 1, Len(ds) - 1)) + UpperHexValue[ds[Len(ds)]]

\* ds writes the number n in upper-case hexadecimal without leading zeros
IsHexOf(ds, n) ==
    /\ Len(ds) >= 1
    /\ \A i \in 1..Len(ds) : ds[i] \in DOMAIN UpperHexValue
    /\ Len(ds) > 1 => ds[1] # "0"
    /\ HexValue(ds) = n

C17_WitnessNoPrefix ==
    /\ cpc = "formatted"
    /\ text = <<"UNKNOWN", "(function:0x", "F", "F", "F",
                ", method:", "NEITHER", ", access:", "READ_WRITE", ")">>

(***************************************************************************)
(* The service control manager, as the service package reaches it.  The    *)
(* world w of a driver operation is the service database's entry for the   *)
(* driver's name (db), the table of handles (hs) and the calls issued      *)
(* (log).  An error is named by its Windows name, "nil" for no error.      *)
(***************************************************************************)
SERVICE_DEMAND_START == 3
SERVICE_ERROR_NORMAL == 1
SERVICE_STOPPED == 1
SERVICE_RUNNING == 4

\* the access rights the model tells apart: SERVICE_QUERY_STATUS,
\* SERVICE_START, SERVICE_STOP and DELETE
SERVICE_ALL_ACCESS == {"query", "start", "stop", "delete"}

World(db, hs, log) == [db |-> db, hs |-> hs, log |-> log]

\* a service call without arguments of interest
Svc(name) == [name |-> name, access |-> {}, startType |-> 0, errorControl |-> 0]

\* the outcome of a service call: the world after it, success, the error
\* and, where the call yields one, the handle or the service state
Failed(w, call, h, e) ==
    [w |-> [w EXCEPT !.log = Append(@, [call |-> call, handle |-> h, ok |-> FALSE])],
     ok |-> FALSE, err |-> e, h |-> 0, state |-> 0]

Done(w, call, h, newh, st) ==
    [w |-> [w EXCEPT !.log = Append(@, [call |-> call, handle |-> h, ok |-> TRUE])],
     ok |-> TRUE, err |-> "nil", h |-> newh, state |-> st]

\* h is an open handle of the given kind
IsOpen(hs, h, kind) ==
    /\ h \in 1..Len(hs)
    /\ hs[h].open
    /\ hs[h].kind = kind

\* a service marked for deletion is removed from the database once it is
\* stopped and no handle to it is open
Settle(db, hs) ==
    IF /\ db.exists /\ db.marked /\ ~db.running
       /\ \A k \in 1..Len(hs) : ~(hs[k].open /\ hs[k].kind = "svc" /\ hs[k].gen = db.gen)
        THEN [db EXCEPT !.exists = FALSE, !.marked = FALSE]
    ELSE db

NewHandle(kind, gen, access) ==
    [kind |-> kind, gen |-> gen, access |-> access, open |-> TRUE, given |-> FALSE]

\* service.OpenSCManager("", "", SC_MANAGER_ALL_ACCESS)
OpenSCManager(w, faults) ==
    IF "OpenSCManager" \in faults
        THEN Failed(w, Svc("OpenSCManager"), 0, "ERROR_ACCESS_DENIED")
    ELSE Done([w EXCEPT !.hs = Append(@, NewHandle("scm", 0, {}))],
              Svc("OpenSCManager"), 0, Len(w.hs) + 1, 0)

OpenCall(desiredAccess) == [Svc("OpenService") EXCEPT !.access = desiredAccess]

\* service.OpenService(scm, driverName, desiredAccess)
OpenService(w, scm, desiredAccess, faults) ==
    IF ~IsOpen(w.hs, scm, "scm")
        THEN Failed(w, OpenCall(desiredAccess), scm, "ERROR_INVALID_HANDLE")
    ELSE IF ~w.db.exists
        THEN Failed(w, OpenCall(desiredAccess), scm, "ERROR_SERVICE_DOES_NOT_EXIST")
    ELSE IF "OpenService" \in faults
        THEN Failed(w, OpenCall(desiredAccess), scm, "ERROR_ACCESS_DENIED")
    ELSE Done([w EXCEPT !.hs = Append(@, NewHandle("svc", w.db.gen, desiredAccess))],
              OpenCall(desiredAccess), scm, Len(w.hs) + 1, 0)

\* service.CreateService(scm, driverName, driverName, desiredAccess,
\* SERVICE_KERNEL_DRIVER, startType, errorControl, driverPath)
CreateService(w, scm, desiredAccess, startType, errorControl, faults) ==
    LET call == [name |-> "CreateService", access |-> desiredAccess,
                 startType |-> startType, errorControl |-> errorControl]
    IN  IF ~IsOpen(w.hs, scm, "scm")
            THEN Failed(w, call, scm, "ERROR_INVALID_HANDLE")
        ELSE IF w.db.exists /\ w.db.marked
            THEN Failed(w, call, scm, "ERROR_SERVICE_MARKED_FOR_DELETE")
        ELSE IF w.db.exists
            THEN Failed(w, call, scm, "ERROR_SERVICE_EXISTS")
        ELSE IF "CreateService" \in faults
            THEN Failed(w, call, scm, "ERROR_ACCESS_DENIED")
        ELSE Done([w EXCEPT !.db = [exists |-> TRUE, running |-> FALSE,
                                    marked |-> FALSE, gen |-> w.db.gen + 1],
                            !.hs = Append(@, NewHandle("svc", w.db.gen + 1, desiredAccess))],
                  call, scm, Len(w.hs) + 1, 0)

\* service.StartService(hService, nil)
StartService(w, hService, faults) ==
    IF ~IsOpen(w.hs, hService, "svc")
        THEN Failed(w, Svc("StartService"), hService, "ERROR_INVALID_HANDLE")
    ELSE IF "start" \notin w.hs[hService].access
        THEN Failed(w, Svc("StartService"), hService, "ERROR_ACCESS_DENIED")
    ELSE IF w.db.marked
        THEN Failed(w, Svc("StartService"), hService, "ERROR_SERVICE_MARKED_FOR_DELETE")
    ELSE IF w.db.running
        THEN Failed(w, Svc("StartService"), hService, "ERROR_SERVICE_ALREADY_RUNNING")
    ELSE IF "StartService" \in faults
        THEN Failed(w, Svc("StartService"), hService, "ERROR_FILE_NOT_FOUND")
    ELSE Done([w EXCEPT !.db.running = TRUE], Svc("StartService"), hService, 0, 0)

\* service.ControlService(hService, SERVICE_CONTROL_STOP, &status)
ControlService(w, hService, faults) ==
    IF ~IsOpen(w.hs, hService, "svc")
        THEN Failed(w, Svc("ControlService"), hService, "ERROR_INVALID_HANDLE")
    ELSE IF "stop" \notin w.hs[hService].access
        THEN Failed(w, Svc("ControlService"), hService, "ERROR_ACCESS_DENIED")
    ELSE IF ~w.db.running
        THEN Failed(w, Svc("ControlService"), hService, "ERROR_SERVICE_NOT_ACTIVE")
    ELSE IF "ControlService" \in faults
        THEN Failed(w, Svc("ControlService"), hService, "ERROR_INVALID_SERVICE_CONTROL")
    ELSE Done([w EXCEPT !.db = Settle([w.db EXCEPT !.running = FALSE], w.hs)],
              Svc("ControlService"), hService, 0, SERVICE_STOPPED)

\* service.DeleteService(hService)
DeleteService(w, hService, faults) ==
    IF ~IsOpen(w.hs, hService, "svc")
        THEN Failed(w, Svc("DeleteService"), hService, "ERROR_INVALID_HANDLE")
    ELSE IF "delete" \notin w.hs[hService].access
        THEN Failed(w, Svc("DeleteService"), hService, "ERROR_ACCESS_DENIED")
    ELSE IF w.db.marked \/ "DeleteService" \in faults
        THEN Failed(w, Svc("DeleteService"), hService, "ERROR_SERVICE_MARKED_FOR_DELETE")
    ELSE Done([w EXCEPT !.db.marked = TRUE], Svc("DeleteService"), hService, 0, 0)

\* service.CloseServiceHandle(hSCObject)
CloseServiceHandle(w, hSCObject) ==
    IF ~(hSCObject \in 1..Len(w.hs) /\ w.hs[hSCObject].open)
        THEN Failed(w, Svc("CloseServiceHandle"), hSCObject, "ERROR_INVALID_HANDLE")
    ELSE LET hs == [w.hs EXCEPT ![hSCObject].open = FALSE]
         IN  Done([w EXCEPT !.hs = hs, !.db = Settle(w.db, hs)],
                  Svc("CloseServiceHandle"), hSCObject, 0, 0)

\* service.QueryServiceStatus(hService, &status): status.CurrentState is
\* written on success only
QueryServiceStatus(w, hService, faults) ==
    IF ~IsOpen(w.hs, hService, "svc")
        THEN Failed(w, Svc("QueryServiceStatus"), hService, "ERROR_INVALID_HANDLE")
    ELSE IF "query" \notin w.hs[hService].access \/ "QueryServiceStatus" \in faults
        THEN Failed(w, Svc("QueryServiceStatus"), hService, "ERROR_ACCESS_DENIED")
    ELSE Done(w, Svc("QueryServiceStatus"), hService, 0,
              IF w.db.running THEN SERVICE_RUNNING ELSE SERVICE_STOPPED)

(***************************************************************************)
(* The driver operations                                                   *)
(***************************************************************************)
\* what a driver operation leaves: the world, the handle and the error
Return(w, h, e) == [w |-> w, handle |-> h, err |-> e]

\* a return that leaves the manager's handle open
ReturnClosing_KeepManager(w, scm, h, e) == Return(w, h, e)

\* a return of a Load function after `defer service.CloseServiceHandle(scm)`
ReturnClosing(w, scm, h, e) == Return(CloseServiceHandle(w, scm).w, h, e)

\* a recreation that keeps the handle of the old service open
ObtainService_KeepOldHandle(w, scm, options, faults) ==
    LET opened == OpenService(w, scm, options.DesiredAccess, faults)
    IN  IF opened.ok
            THEN IF options.RecreateIfExists
                     THEN LET stopped == ControlService(opened.w, opened.h, faults)
                              deleted == DeleteService(stopped.w, opened.h, faults)
                          IN  CreateService(deleted.w, scm, options.DesiredAccess,
                                            options.StartType, options.ErrorControl, faults)
                 ELSE opened
        ELSE CreateService(opened.w, scm, options.DesiredAccess,
                           options.StartType, options.ErrorControl, faults)

\* the part of LoadDriverWithOptions that obtains svc: the existing service
\* (recreated when asked for) or a new one
ObtainService(w, scm, options, faults) ==
    LET opened == OpenService(w, scm, options.DesiredAccess, faults)
    IN  IF opened.ok
            THEN IF options.RecreateIfExists
                     THEN LET stopped == ControlService(opened.w, opened.h, faults)
                              deleted == DeleteService(stopped.w, opened.h, faults)
                              closed == CloseServiceHandle(deleted.w, opened.h)
                          IN  CreateService(closed.w, scm, options.DesiredAccess,
                                            options.StartType, options.ErrorControl, faults)
                 ELSE opened
        ELSE CreateService(opened.w, scm, options.DesiredAccess,
                           options.StartType, options.ErrorControl, faults)

\* a start that does not look at StartImmediately
StartIfRequested_Always(w, scm, svc, options, faults) ==
    LET started == StartService(w, svc, faults)
        queried == QueryServiceStatus(started.w, svc, faults)
    IN  IF started.ok THEN ReturnClosing(started.w, scm, svc, "nil")
        ELSE IF queried.state # SERVICE_RUNNING
            THEN ReturnClosing(CloseServiceHandle(queried.w, svc).w, scm, 0, started.err)
        ELSE ReturnClosing(queried.w, scm, svc, "nil")

\* the part of LoadDriverWithOptions that starts svc when asked to
StartIfRequested(w, scm, svc, options, faults) ==
    IF ~options.StartImmediately THEN ReturnClosing(w, scm, svc, "nil")
    ELSE LET started == StartService(w, svc, faults)
             queried == QueryServiceStatus(started.w, svc, faults)
         IN  IF started.ok THEN ReturnClosing(started.w, scm, svc, "nil")
             ELSE IF queried.state # SERVICE_RUNNING
                 THEN ReturnClosing(CloseServiceHandle(queried.w, svc).w, scm, 0,
                                    started.err)
             ELSE ReturnClosing(queried.w, scm, svc, "nil")

LoadDriverWithOptions(w, options, faults) ==
    LET manager == OpenSCManager(w, faults)
        got == ObtainService(manager.w, manager.h, options, faults)
    IN  IF ~manager.ok THEN Return(manager.w, 0, manager.err)
        ELSE IF ~got.ok THEN ReturnClosing(got.w, manager.h, 0, got.err)
        ELSE StartIfRequested(got.w, manager.h, got.h, options, faults)

\* default options that ask for a manual start
DefaultDriverLoadOptions_ManualStart ==
    [given |-> TRUE, DesiredAccess |-> SERVICE_ALL_ACCESS,
     StartType |-> SERVICE_DEMAND_START, ErrorControl |-> SERVICE_ERROR_NORMAL,
     StartImmediately |-> FALSE, RecreateIfExists |-> FALSE]

DefaultDriverLoadOptions ==
    [given |-> TRUE, DesiredAccess |-> SERVICE_ALL_ACCESS,
     StartType |-> SERVICE_DEMAND_START, ErrorControl |-> SERVICE_ERROR_NORMAL,
     StartImmediately |-> TRUE, RecreateIfExists |-> FALSE]

LoadDriverEx(w, desiredAccess, startType, errorControl, faults) ==
    LET manager == OpenSCManager(w, faults)
        scm == manager.h
        opened == OpenService(manager.w, scm, desiredAccess, faults)
        got == IF opened.ok THEN opened
               ELSE CreateService(opened.w, scm, desiredAccess, startType,
                                  errorControl, faults)
        svc == got.h
        started == StartService(got.w, svc, faults)
        queried == QueryServiceStatus(started.w, svc, faults)
    IN  IF ~manager.ok THEN Return(manager.w, 0, manager.err)
        ELSE IF ~got.ok THEN ReturnClosing(got.w, scm, 0, got.err)
        ELSE IF started.ok THEN ReturnClosing(started.w, scm, svc, "nil")
        ELSE IF queried.state # SERVICE_RUNNING
            THEN ReturnClosing(CloseServiceHandle(queried.w, svc).w, scm, 0, started.err)
        ELSE ReturnClosing(queried.w, scm, svc, "nil")

LoadDriver(w, faults) ==
    LET manager == OpenSCManager(w, faults)
        scm == manager.h
        opened == OpenService(manager.w, scm, SERVICE_ALL_ACCESS, faults)
        got == IF opened.ok THEN opened
               ELSE CreateService(opened.w, scm, SERVICE_ALL_ACCESS,
                                  SERVICE_DEMAND_START, SERVICE_ERROR_NORMAL, faults)
        svc == got.h
        started == StartService(got.w, svc, faults)
        queried == QueryServiceStatus(started.w, svc, faults)
    IN  IF ~manager.ok THEN Return(manager.w, 0, manager.err)
        ELSE IF ~got.ok THEN ReturnClosing(got.w, scm, 0, got.err)
        ELSE IF started.ok THEN ReturnClosing(started.w, scm, svc, "nil")
        ELSE IF queried.state # SERVICE_RUNNING
            THEN ReturnClosing(CloseServiceHandle(queried.w, svc).w, scm, 0, started.err)
        ELSE ReturnClosing(queried.w, scm, svc, "nil")

\* an unload that closes the handle when the stop has failed
UnloadDriverEx_CloseOnStopError(w, hService, deleteService, closeHandle, faults) ==
    LET stopped == ControlService(w, hService, faults)
        deleted == IF deleteService THEN DeleteService(stopped.w, hService, faults)
                   ELSE stopped
    IN  IF ~stopped.ok
            THEN Return(IF closeHandle THEN CloseServiceHandle(stopped.w, hService).w
                        ELSE stopped.w, 0, stopped.err)
        ELSE IF ~deleted.ok THEN Return(deleted.w, 0, deleted.err)
        ELSE IF closeHandle
            THEN Return(CloseServiceHandle(deleted.w, hService).w, 0, "nil")
        ELSE Return(deleted.w, 0, "nil")

UnloadDriverEx(w, hService, deleteService, closeHandle, faults) ==
    LET stopped == ControlService(w, hService, faults)
        deleted == IF deleteService THEN DeleteService(stopped.w, hService, faults)
                   ELSE stopped
    IN  IF ~stopped.ok THEN Return(stopped.w, 0, stopped.err)
        ELSE IF ~deleted.ok THEN Return(deleted.w, 0, deleted.err)
        ELSE IF closeHandle
            THEN Return(CloseServiceHandle(deleted.w, hService).w, 0, "nil")
        ELSE Return(deleted.w, 0, "nil")

UnloadDriver(w, hService, faults) ==
    LET stopped == ControlService(w, hService, faults)
        deleted == DeleteService(stopped.w, hService, faults)
    IN  IF ~stopped.ok THEN Return(stopped.w, 0, stopped.err)
        ELSE IF ~deleted.ok THEN Return(deleted.w, 0, deleted.err)
        ELSE Return(CloseServiceHandle(deleted.w, hService).w, 0, "nil")

StartDriver(w, hService, faults) ==
    LET started == StartService(w, hService, faults)
        queried == QueryServiceStatus(started.w, hService, faults)
    IN  IF started.ok THEN Return(started.w, 0, "nil")
        ELSE IF queried.ok /\ queried.state = SERVICE_RUNNING
            THEN Return(queried.w, 0, "nil")
        ELSE Return(queried.w, 0, started.err)

StopDriver(w, hService, faults) ==
    LET stopped == ControlService(w, hService, faults)
    IN  Return(stopped.w, 0, stopped.err)

(***************************************************************************)
(* Calls of the driver operations                                          *)
(***************************************************************************)
\* at most MaxOps driver operations are called in a row
MaxOps == 3

\* at most MaxFaults of the service calls of an operation fail for a reason
\* that lies outside the model (rights of the caller, the driver's image)
MaxFaults == 1

AccessSamples == {SERVICE_ALL_ACCESS, {"start", "stop", "delete"}}

OptionSamples ==
    [given : {TRUE}, DesiredAccess : AccessSamples, StartType : {SERVICE_DEMAND_START},
     ErrorControl : {SERVICE_ERROR_NORMAL}, StartImmediately : BOOLEAN,
     RecreateIfExists : BOOLEAN]

\* the service calls of an operation that may fail for an outside reason
FaultSets(names) == {F \in SUBSET names : Cardinality(F) <= MaxFaults}

\* the driver's service before the first operation: not registered,
\* registered and stopped, or registered and running
ServiceStates ==
    {NoService,
     [exists |-> TRUE, running |-> FALSE, marked |-> FALSE, gen |-> 1],
     [exists |-> TRUE, running |-> TRUE, marked |-> FALSE, gen |-> 1]}

\* the handles a Load call has returned to the caller
GivenHandles == {k \in 1..Len(handles) : handles[k].given}

\* a driver operation was called with handle h, the options and the faults
\* and has returned r
Returned(name, h, options, faults, r) ==
    /\ svcdb' = r.w.db
    /\ handles' = IF r.handle # 0 THEN [r.w.hs EXCEPT ![r.handle].given = TRUE]
                  ELSE r.w.hs
    /\ calls' = r.w.log
    /\ ret' = [handle |-> r.handle, err |-> r.err]
    /\ op' = [name |-> name, n |-> op.n + 1, h |-> h, options |-> options,
              faults |-> faults, before |-> svcdb,
              wasOpen |-> IsOpen(handles, h, "svc")]
    /\ UNCHANGED codecVars
    /\ UNCHANGED engineVars
    /\ UNCHANGED <<sessionVars, formatVars, queryVars>>

CallLoadDriverWithOptions ==
    /\ op.n < MaxOps
    /\ \E options \in OptionSamples,
          faults \in FaultSets({"OpenSCManager", "OpenService", "CreateService",
                                "StartService", "ControlService", "DeleteService",
                                "QueryServiceStatus"}) :
          \E r \in {LoadDriverWithOptions(World(svcdb, handles, << >>), options, faults)} :
              Returned("LoadDriverWithOptions", 0, options, faults, r)

CallLoadDriver ==
    /\ op.n < MaxOps
    /\ \E faults \in FaultSets({"OpenSCManager", "OpenService", "CreateService",
                                "StartService", "QueryServiceStatus"}) :
          \E r \in {LoadDriver(World(svcdb, handles, << >>), faults)} :
              Returned("LoadDriver", 0, [given |-> FALSE], faults, r)

CallLoadDriverEx ==
    /\ op.n < MaxOps
    /\ \E desiredAccess \in AccessSamples,
          faults \in FaultSets({"OpenSCManager", "OpenService", "CreateService",
                                "StartService", "QueryServiceStatus"}) :
          \E r \in {LoadDriverEx(World(svcdb, handles, << >>), desiredAccess,
                                  SERVICE_DEMAND_START, SERVICE_ERROR_NORMAL, faults)} :
              Returned("LoadDriverEx", 0, [given |-> FALSE, DesiredAccess |-> desiredAccess],
                       faults, r)

CallUnloadDriverEx ==
    /\ op.n < MaxOps
    /\ \E h \in GivenHandles, deleteService \in BOOLEAN, closeHandle \in BOOLEAN,
          faults \in FaultSets({"ControlService", "DeleteService"}) :
          \E r \in {UnloadDriverEx(World(svcdb, handles, << >>), h, deleteService,
                                    closeHandle, faults)} :
              Returned("UnloadDriverEx", h,
                       [given |-> FALSE, deleteService |-> deleteService,
                        closeHandle |-> closeHandle], faults, r)

CallUnloadDriver ==
    /\ op.n < MaxOps
    /\ \E h \in GivenHandles, faults \in FaultSets({"ControlService", "DeleteService"}) :
          \E r \in {UnloadDriver(World(svcdb, handles, << >>), h, faults)} :
              Returned("UnloadDriver", h, [given |-> FALSE], faults, r)

CallStartDriver ==
    /\ op.n < MaxOps
    /\ \E h \in GivenHandles, faults \in FaultSets({"StartService", "QueryServiceStatus"}) :
          \E r \in {StartDriver(World(svcdb, handles, << >>), h, faults)} :
              Returned("StartDriver", h, [given |-> FALSE], faults, r)

CallStopDriver ==
    /\ op.n < MaxOps
    /\ \E h \in GivenHandles, faults \in FaultSets({"ControlService"}) :
          \E r \in {StopDriver(World(svcdb, handles, << >>), h, faults)} :
              Returned("StopDriver", h, [given |-> FALSE], faults, r)

InitDriver ==
    /\ CodecInit /\ EngineIdle /\ SessionIdle /\ FormatIdle /\ QueryIdle
    /\ dev = [period |-> 1, phase |-> 0, handle |-> "open"]
    /\ svcdb \in ServiceStates
    /\ handles = << >>
    /\ calls = << >>
    /\ ret = [handle |-> 0, err |-> "nil"]
    /\ op = [name |-> "none", n |-> 0, h |-> 0, options |-> [given |-> FALSE],
             faults |-> {}, before |-> svcdb, wasOpen |-> FALSE]

NextDriver ==
    \/ CallLoadDriverWithOptions \/ CallUnloadDriver \/ CallStartDriver \/ CallStopDriver
    \/ CallLoadDriver \/ CallLoadDriverEx \/ CallUnloadDriverEx

SpecDriver == InitDriver /\ [][NextDriver]_vars

(***************************************************************************)
(* Properties of the driver operations                                     *)
(***************************************************************************)
\* the last operation was called on an open handle with all access rights
\* that a Load call had returned, and no service call failed for an outside
\* reason
CalledOnLoadedHandle(name) ==
    /\ op.name = name
    /\ op.wasOpen
    /\ op.faults = {}
    /\ handles[op.h].given
    /\ handles[op.h].access = SERVICE_ALL_ACCESS
    /\ handles[op.h].gen = op.before.gen

\* the service the operation was called on has been deleted: it is marked
\* for deletion or gone from the database
ServiceDeleted == svcdb.marked \/ ~svcdb.exists \/ svcdb.gen # op.before.gen

\* C18: UnloadDriver(h) stops the driver, deletes the service and closes the
\* handle: after a call on a handle obtained from a Load call, whether the
\* driver was running, stopped or never started, the service has been
\* deleted and the handle has been closed.
C18_UnloadDeletesAndCloses ==
    (CalledOnLoadedHandle("UnloadDriver") /\ ~op.before.marked) =>
        /\ ServiceDeleted
        /\ ~handles[op.h].open

\* the same for a driver that was running when UnloadDriver was called
C18_WhenRunning ==
    op.before.running => C18_UnloadDeletesAndCloses

\* UnloadDriver on a running driver: stopped, deleted and closed
C18_WitnessRunning ==
    /\ CalledOnLoadedHandle("UnloadDriver")
    /\ op.before.running
    /\ ret.err = "nil"
    /\ ~svcdb.exists
    /\ ~handles[op.h].open

\* StartDriver was called, without outside failure, on an open handle that a
\* Load call had returned, the driver running
StartedWhileRunning ==
    /\ op.name = "StartDriver"
    /\ op.wasOpen
    /\ op.faults = {}
    /\ handles[op.h].given
    /\ handles[op.h].gen = op.before.gen
    /\ op.before.running

\* C19: StartDriver returns nil when the driver is already running, so it
\* can be called any number of times in a row on the same handle: a call
\* made while the driver is running returns nil and leaves it running.
C19_StartIdempotent ==
    StartedWhileRunning => (ret.err = "nil" /\ svcdb.running)

\* the same for the handles that carry the right to query the status
C19_WithQueryAccess ==
    (StartedWhileRunning /\ "query" \in handles[op.h].access) => C19_StartIdempotent

\* StartDriver on a running driver: StartService fails, the status query
\* reports SERVICE_RUNNING, nil is returned
C19_WitnessAlreadyRunning ==
    /\ StartedWhileRunning
    /\ Len(calls) = 2
    /\ calls[1].call.name = "StartService" /\ ~calls[1].ok
    /\ calls[2].call.name = "QueryServiceStatus" /\ calls[2].ok
    /\ ret.err = "nil"
    /\ svcdb.running

\* LoadDriverWithOptions was called and found the service: its OpenService
\* call succeeded
LoadedExisting ==
    /\ op.name = "LoadDriverWithOptions"
    /\ Len(calls) >= 2
    /\ calls[2].call.name = "OpenService"
    /\ calls[2].ok

\* the names of the service calls issued by the last operation
CallNames == {calls[i].call.name : i \in 1..Len(calls)}

\* C20: LoadDriverWithOptions with RecreateIfExists = true on an existing
\* service requests stop and delete of the old service and closes its
\* handle before it requests the creation of the new one, and a handle it
\* returns refers to the newly created service; with RecreateIfExists =
\* false the existing service is reused and no delete or create request is
\* issued.
C20_RecreateIfExists ==
    LoadedExisting =>
        IF op.options.RecreateIfExists
            THEN /\ Len(calls) >= 6
                 /\ calls[3].call.name = "ControlService"
                 /\ calls[4].call.name = "DeleteService"
                 /\ calls[5].call.name = "CloseServiceHandle"
                 /\ calls[6].call.name = "CreateService"
                 /\ calls[3].handle = calls[4].handle
                 /\ calls[4].handle = calls[5].handle
                 /\ handles[calls[5].handle].kind = "svc"
                 /\ handles[calls[5].handle].gen = op.before.gen
                 /\ ~handles[calls[5].handle].open
                 /\ ret.handle # 0 =>
                       /\ ret.err = "nil"
                       /\ calls[6].ok
                       /\ ret.handle # calls[5].handle
                       /\ handles[ret.handle].gen = op.before.gen + 1
                       /\ svcdb.exists /\ svcdb.gen = op.before.gen + 1
        ELSE /\ CallNames \cap {"ControlService", "DeleteService", "CreateService"} = {}
             /\ svcdb.exists /\ svcdb.gen = op.before.gen
             /\ ret.handle # 0 =>
                   /\ ret.err = "nil"
                   /\ handles[ret.handle].gen = op.before.gen

C20_Witness ==
    /\ LoadedExisting
    /\ op.options.RecreateIfExists
    /\ op.before.running
    /\ ret.err = "nil"
    /\ calls[3].ok /\ calls[4].ok /\ calls[5].ok /\ calls[6].ok
    /\ handles[ret.handle].gen = op.before.gen + 1
    /\ handles[ret.handle].open

\* an existing service is reused
C20_WitnessReused ==
    /\ LoadedExisting
    /\ ~op.options.RecreateIfExists
    /\ op.options.StartImmediately
    /\ ret.err = "nil"
    /\ handles[ret.handle].gen = op.before.gen
    /\ svcdb.running

\* LoadDriverWithOptions was called with StartImmediately = false
LoadedWithoutStart ==
    /\ op.name = "LoadDriverWithOptions"
    /\ ~op.options.StartImmediately

\* StartDriver was called on an open handle of the registered service that
\* carries the right to start it, the driver was not running, and no service
\* call failed for an outside reason
StartedWhileStopped ==
    /\ op.name = "StartDriver"
    /\ op.wasOpen
    /\ op.faults = {}
    /\ handles[op.h].given
    /\ handles[op.h].gen = op.before.gen
    /\ "start" \in handles[op.h].access
    /\ op.before.exists /\ ~op.before.marked /\ ~op.before.running

C21_WitnessStartedLater ==
    /\ StartedWhileStopped
    /\ svcdb.running
    /\ op.n = 2

\* the step is a call of the named operation that leaves what r holds
StepReturns(name, r) ==
    /\ op'.name = name
    /\ svcdb' = r.w.db
    /\ calls' = r.w.log
    /\ ret' = [handle |-> r.handle, err |-> r.err]
    /\ handles' = IF r.handle # 0 THEN [r.w.hs EXCEPT ![r.handle].given = TRUE]
                  ELSE r.w.hs

\* a call of LoadDriver leaves what LoadDriverWithOptions with the default
\* options leaves from the same service database, handles and failures
LoadDriverAsDefault ==
    op'.name = "LoadDriver" =>
        StepReturns("LoadDriver",
                    LoadDriverWithOptions(World(svcdb, handles, << >>),
                                          DefaultDriverLoadOptions, op'.faults))

\* C22: LoadDriver(path, name) issues the same sequence of service calls,
\* with the same arguments, and returns the same handle and error as
\* LoadDriverWithOptions(path, name, DefaultDriverLoadOptions()), for every
\* state of the service database and every outcome of the service calls.
C22_LoadDriverIsDefault == [][LoadDriverAsDefault]_vars

C22_Witness ==
    /\ op.name = "LoadDriver"
    /\ ~op.before.exists
    /\ ret.err = "nil"
    /\ Len(calls) = 5
    /\ calls[3].call = [name |-> "CreateService", access |-> SERVICE_ALL_ACCESS,
                        startType |-> SERVICE_DEMAND_START,
                        errorControl |-> SERVICE_ERROR_NORMAL]
    /\ calls[4].call.name = "StartService" /\ calls[4].ok
    /\ svcdb.running

\* LoadDriver has failed to start the service it created
C22_WitnessStartFailed ==
    /\ op.name = "LoadDriver"
    /\ "StartService" \in op.faults
    /\ ret.err = "ERROR_FILE_NOT_FOUND"
    /\ ret.handle = 0

\* UnloadDriverEx was called with deleteService and closeHandle as given
UnloadedEx(deleteService, closeHandle) ==
    /\ op.name = "UnloadDriverEx"
    /\ op.options.deleteService = deleteService
    /\ op.options.closeHandle = closeHandle

\* a call UnloadDriverEx(h, true, true) leaves what UnloadDriver(h) leaves
\* from the same service database, handles and failures
UnloadDriverExAsUnload ==
    (/\ op'.name = "UnloadDriverEx"
     /\ op'.options.deleteService
     /\ op'.options.closeHandle) =>
        StepReturns("UnloadDriverEx",
                    UnloadDriver(World(svcdb, handles, << >>), op'.h, op'.faults))

\* UnloadDriverEx(h, false, false) issues the stop request only and leaves
\* the handle as it was
StopsOnly ==
    UnloadedEx(FALSE, FALSE) =>
        /\ Len(calls) = 1
        /\ calls[1].call.name = "ControlService"
        /\ calls[1].handle = op.h
        /\ handles[op.h].open = op.wasOpen
        /\ ret.err = "nil" => ~svcdb.running
        /\ svcdb.marked = op.before.marked

\* C23: UnloadDriverEx(h, true, true) issues the same sequence of service
\* calls and returns the same error as UnloadDriver(h) for every outcome of
\* the stop, delete and close calls; UnloadDriverEx(h, false, false) only
\* stops the driver: it issues no delete and leaves the handle open.
C23_UnloadExIsUnload == []StopsOnly /\ [][UnloadDriverExAsUnload]_vars

C23_Witness ==
    /\ UnloadedEx(TRUE, TRUE)
    /\ op.wasOpen
    /\ op.before.running
    /\ ret.err = "nil"
    /\ Len(calls) = 3
    /\ ~handles[op.h].open
    /\ ~svcdb.exists

\* UnloadDriverEx(h, false, false) has stopped the driver
C23_WitnessStopOnly ==
    /\ UnloadedEx(FALSE, FALSE)
    /\ op.before.running
    /\ ret.err = "nil"
    /\ svcdb.exists /\ ~svcdb.running
    /\ handles[op.h].open

\* UnloadDriverEx(h, true, true) has failed to stop a stopped driver
C23_WitnessStopFailed ==
    /\ UnloadedEx(TRUE, TRUE)
    /\ op.wasOpen
    /\ ~op.before.running
    /\ ret.err = "ERROR_SERVICE_NOT_ACTIVE"

(***************************************************************************)
(* NtQuerySystemInformation and NtQuerySystemInformationEx (package ntdll) *)
(***************************************************************************)
STATUS_SUCCESS == U32(0)

\* 0xC0000004
STATUS_INFO_LENGTH_MISMATCH == Word(49152, 4)

\* 0xC0000022, a failure status other than the length mismatch
STATUS_ACCESS_DENIED == Word(49152, 34)

\* `attempts < 8`
MaxAttempts == 8

\* 16*1024*1024, the size above which NtQuerySystemInformationEx gives up
ExSizeLimit == Word(256, 0)

\* `size := initialSize; if size == 0 { size = 65536 }`
InitialBufferSize(initialSize) ==
    IF initialSize = U32(0) THEN U32(65536) ELSE initialSize

\* a retry on every failure status
Retry_AnyFailure(status) == status # STATUS_SUCCESS

\* `if ret == 0xC0000004`
Retry(status) == status = STATUS_INFO_LENGTH_MISMATCH

\* `if returnLen > 0 { size = returnLen } else { size *= 2 }`
GrownSize(sz, len) ==
    IF len # U32(0) THEN len ELSE Shl(sz, 1)

\* the slice returned on success: buf[:returnLen] when
\* `returnLen > 0 && returnLen <= uint32(len(buf))`, buf otherwise
SuccessBuffer(sz, len) ==
    IF len # U32(0) /\ Leq(len, sz) THEN Buffer(len) ELSE Buffer(sz)

\* `if size > 16*1024*1024 { break }` after the doubling in the Ex variant
GivesUp(isEx, sz, len) ==
    /\ isEx
    /\ len = U32(0)
    /\ ~Leq(GrownSize(sz, len), ExSizeLimit)

\* the values of initialSize
InitialSizes == {U32(0), U32(1), Word(128, 0), Word(32768, 0)}

\* the statuses the system call returns
StatusSamples == {STATUS_SUCCESS, STATUS_INFO_LENGTH_MISMATCH, STATUS_ACCESS_DENIED}

\* the values the system call leaves in returnLen
ReturnLengths == {U32(0), U32(64), Word(32768, 0)}

\* a call of NtQuerySystemInformation or NtQuerySystemInformationEx
QueryStart ==
    /\ qpc = "idle"
    /\ \E isEx \in BOOLEAN, initialSize \in InitialSizes :
          /\ ex' = isEx
          /\ size' = InitialBufferSize(initialSize)
    /\ qpc' = "loop"
    /\ attempts' = 0
    /\ returnLen' = U32(0)
    /\ queries' = << >>
    /\ UNCHANGED out
    /\ UNCHANGED codecVars
    /\ UNCHANGED engineVars
    /\ UNCHANGED <<sessionVars, formatVars, driverVars>>

\* one iteration of the loop: `buf := make([]byte, size)`, the query with
\* &buf[0], and what the status leads to.  &buf[0] of an empty slice panics.
QueryAttempt ==
    /\ qpc = "loop"
    /\ IF size = U32(0)
           THEN /\ qpc' = "panic"
                /\ UNCHANGED <<size, attempts, returnLen, queries, out>>
       ELSE \E status \in StatusSamples, written \in ReturnLengths :
           /\ returnLen' = written
           /\ queries' = Append(queries, [size |-> size, status |-> status,
                                          returnLen |-> written])
           /\ IF status = STATUS_SUCCESS
                  THEN /\ out' = [buf |-> SuccessBuffer(size, written), status |-> status]
                       /\ qpc' = "done"
                       /\ UNCHANGED <<size, attempts>>
              ELSE IF Retry(status)
                  THEN /\ size' = GrownSize(size, written)
                       /\ IF GivesUp(ex, size, written)
                              THEN /\ out' = [buf |-> NilBuffer,
                                              status |-> STATUS_INFO_LENGTH_MISMATCH]
                                   /\ qpc' = "done"
                                   /\ UNCHANGED attempts
                          ELSE /\ attempts' = attempts + 1
                               /\ IF attempts + 1 < MaxAttempts
                                      THEN /\ qpc' = "loop"
                                           /\ UNCHANGED out
                                  ELSE /\ qpc' = "done"
                                       /\ out' = [buf |-> NilBuffer,
                                                  status |-> STATUS_INFO_LENGTH_MISMATCH]
              ELSE /\ out' = [buf |-> NilBuffer, status |-> status]
                   /\ qpc' = "done"
                   /\ UNCHANGED <<size, attempts>>
    /\ UNCHANGED ex
    /\ UNCHANGED codecVars
    /\ UNCHANGED engineVars
    /\ UNCHANGED <<sessionVars, formatVars, driverVars>>

InitQuery ==
    /\ CodecInit /\ EngineIdle /\ SessionIdle /\ FormatIdle /\ DriverIdle /\ QueryIdle
    /\ dev = [period |-> 1, phase |-> 0, handle |-> "open"]

NextQuery == QueryStart \/ QueryAttempt

SpecQuery == InitQuery /\ [][NextQuery]_vars

(***************************************************************************)
(* Properties of the queries                                               *)
(***************************************************************************)
\* the last call of the underlying query
LastQuery == queries[Len(queries)]

\* C24: NtQuerySystemInformation makes at most 8 calls of the underlying
\* query and a further attempt is made only after a call that returned
\* STATUS_INFO_LENGTH_MISMATCH; it returns a buffer with status 0 on the
\* first success, a nil buffer with the status on any other failure status,
\* and a nil buffer with STATUS_INFO_LENGTH_MISMATCH when all 8 attempts
\* mismatch.
C24_AtMostEightQueries ==
    ~ex =>
        /\ Len(queries) <= 8
        /\ attempts <= 8
        /\ qpc = "loop" => attempts < 8 /\ attempts = Len(queries)
        /\ \A k \in 1..Len(queries) :
              (k < Len(queries) \/ qpc = "loop") =>
                  queries[k].status = STATUS_INFO_LENGTH_MISMATCH
        /\ qpc = "done" =>
              /\ Len(queries) >= 1
              /\ IF LastQuery.status = STATUS_SUCCESS
                     THEN /\ ~out.buf.nil
                          /\ out.buf.len # U32(0)
                          /\ Leq(out.buf.len, LastQuery.size)
                          /\ out.status = STATUS_SUCCESS
                 ELSE IF LastQuery.status = STATUS_INFO_LENGTH_MISMATCH
                     THEN /\ Len(queries) = 8
                          /\ out = [buf |-> NilBuffer,
                                    status |-> STATUS_INFO_LENGTH_MISMATCH]
                 ELSE out = [buf |-> NilBuffer, status |-> LastQuery.status]

\* all 8 attempts have mismatched
C24_Witness ==
    /\ ~ex
    /\ qpc = "done"
    /\ Len(queries) = 8
    /\ LastQuery.status = STATUS_INFO_LENGTH_MISMATCH
    /\ out.buf.nil

\* a success after resizing
C24_WitnessResized ==
    /\ ~ex
    /\ qpc = "done"
    /\ Len(queries) = 3
    /\ LastQuery.status = STATUS_SUCCESS
    /\ LastQuery.size # queries[1].size
    /\ ~out.buf.nil

\* C25: in NtQuerySystemInformation the size used by attempt k+1 is never
\* smaller than the size used by attempt k.
C25_SizeOnlyGrows ==
    ~ex =>
        /\ \A k \in 1..(Len(queries) - 1) : Leq(queries[k].size, queries[k + 1].size)
        /\ (qpc = "loop" /\ Len(queries) >= 1) => Leq(LastQuery.size, size)

\* the size after a mismatch is the returned length when one is provided,
\* and twice the size, in 32 bits, otherwise
C25_SizeAsReturned ==
    \A k \in 1..(Len(queries) - 1) :
        queries[k + 1].size = IF queries[k].returnLen # U32(0) THEN queries[k].returnLen
                              ELSE Shl(queries[k].size, 1)

\* C28: the buffer size used by each attempt of NtQuerySystemInformation
\* and NtQuerySystemInformationEx is at least 1, so that taking the address
\* of the buffer's first byte never fails.
C28_SizeAtLeastOne ==
    /\ qpc = "loop" => size # U32(0)
    /\ qpc # "panic"
    /\ \A k \in 1..Len(queries) : queries[k].size # U32(0)

\* the size is at least 1 as long as no doubling has passed 2^32
C28_FirstSizeAtLeastOne ==
    (qpc = "loop" /\ queries = << >>) => size # U32(0)

(***************************************************************************)
(* Encoding what was decoded                                               *)
(***************************************************************************)
\* codes with a single bit set and codes with a single bit clear: every bit
\* position of the 32 is told apart from every other
BitPatterns ==
    {Word(0, Pow2(i)) : i \in 0..15} \cup {Word(Pow2(i), 0) : i \in 0..15}
    \cup {Word(Half - 1, Half - 1 - Pow2(i)) : i \in 0..15}
    \cup {Word(Half - 1 - Pow2(i), Half - 1) : i \in 0..15}

\* a caller hands over one of the bit patterns
PickBitPattern ==
    /\ cpc = "start"
    /\ \E c \in BitPatterns : code' = c
    /\ cpc' = "coded"
    /\ UNCHANGED <<args, components>>
    /\ UNCHANGED engineVars
    /\ UNCHANGED <<sessionVars, formatVars, driverVars, queryVars>>

InitInverse == InitCodec

NextInverse == Encode \/ PickCode \/ PickBitPattern \/ Decode

SpecInverse == InitInverse /\ [][NextInverse]_vars

\* C26: for every 32-bit code c, CTL_CODE(ExtractDeviceType(c),
\* ExtractFunction(c), ExtractMethod(c), ExtractAccess(c)) = c: encoding the
\* four decoded fields gives the code back.
C26_EncodeDecoded ==
    cpc = "decoded" =>
        /\ components.DeviceType = ExtractDeviceType(code)
        /\ components.Function = ExtractFunction(code)
        /\ components.Method = ExtractMethod(code)
        /\ components.Access = ExtractAccess(code)
        /\ CTL_CODE(components.DeviceType, components.Function, components.Method,
                    components.Access) = code

\* a raw code with only its highest method bit set has been decoded
C26_Witness ==
    /\ cpc = "decoded"
    /\ ~args.given
    /\ code = U32(2)
    /\ components.Method = U32(2)
    /\ components.Function = U32(0)

\* the code with all bits set has been decoded
C26_WitnessAllOnes ==
    /\ cpc = "decoded"
    /\ ~args.given
    /\ code = AllOnes
    /\ components.DeviceType = U32(65535)
    /\ components.Function = U32(4095)
    /\ components.Access = U32(3)

\* C27: a failed device-control call is never recorded as an error-free
\* success: when DeviceIoControl's system call returned 0, the result of
\* ProbeIOCTL has a non-nil ErrorCode, whatever last-error value is read
\* afterwards; Valid = true with ErrorCode = nil occurs only when the call
\* succeeded.
C27_FailureHasError ==
    (pc = "done" /\ probeLog # << >>) =>
        /\ LastSys.ret = 0 => ~result.ErrorCode.isNil
        /\ (result.Valid /\ result.ErrorCode.isNil) => LastSys.ret # 0

\* a failed call has a non-nil ErrorCode when the last-error value read
\* after it is not 0
C27_UnlessLastErrorZero ==
    (pc = "done" /\ probeLog # << >> /\ LastSys.ret = 0 /\ LastSys.lastError # 0) =>
        result.ErrorCode = Errno(LastSys.lastError)

(***************************************************************************)
(* Failures and handles of the Load functions                              *)
(***************************************************************************)
\* the last operation was one of the three Load functions
Loaded == op.name \in {"LoadDriver", "LoadDriverEx", "LoadDriverWithOptions"}

\* C29: if LoadDriver, LoadDriverEx or LoadDriverWithOptions returns an
\* error, the service database is as it was before the call.
C29_FailedLoadLeavesNoService ==
    (Loaded /\ ret.err # "nil") => svcdb = op.before

\* a failed Load leaves the database as it was when it has not come to
\* create or delete a service
C29_UnlessCreatedOrDeleted ==
    (/\ Loaded
     /\ ret.err # "nil"
     /\ \A i \in 1..Len(calls) :
           calls[i].call.name \in {"CreateService", "DeleteService", "ControlService"}
               => ~calls[i].ok) =>
        svcdb = op.before

\* the handles the operations have opened and not handed to the caller
KeptHandles == {k \in 1..Len(handles) : ~handles[k].given}

C30_WitnessRecreated ==
    /\ op.name = "LoadDriverWithOptions"
    /\ op.options.RecreateIfExists
    /\ op.before.exists
    /\ ret.err = "nil"
    /\ Len(calls) >= 7

====
